---- MODULE Spec2Model ----
(***************************************************************************)
(* Revise Scheduler: the line-rewriting engine and the document            *)
(* orchestrator of the Obsidian plugin, in its successive variants:        *)
(*   V1  src/main.js 1-167 (= src/unnamed/part_001 1-166): first ladder    *)
(*   V2  src/main.js 168-394: longest-tag detection, completion-date base  *)
(*   VR  src/verify_repeat.js: V2's engine plus #repeat_N                  *)
(*   EV  src/unnamed/part_000: event-driven, 4-stage ladder, #repeat_N     *)
(*   TS  src/main.ts: the first event-driven version, 4-stage ladder       *)
(*                                                                         *)
(* A line of text is a sequence of tokens, the text being the tokens       *)
(* joined by single spaces.  A token is a record [t, d]: t is its literal  *)
(* text (or the name of its marker glyph) and d the digits it carries:     *)
(*   plain token   [t |-> "#revise_90", d |-> <<>>]                        *)
(*   date token    [t |-> glyph, d |-> <<y, m, d>>]   "<glyph> YYYY-MM-DD" *)
(*   repeat tag    [t |-> "#repeat_", d |-> digits]   "#repeat_<digits>"   *)
(* Glyphs: CAL = U+1F4C5 and HOURGLASS = U+23F3 (due), PLUS = U+2795       *)
(* (created), CHECK = U+2705 (done).                                       *)
(* Every regular expression of the source is translated to what it does   *)
(* on such a token sequence.                                               *)
(***************************************************************************)
EXTENDS Integers, Sequences, FiniteSets, Bags, TLC

VARIABLES
  line,     \* the line the engine is run on
  now,      \* today's date, as moment() gives it
  phase,    \* where the current line is: being typed, evaluated, ...
  variant,  \* which variant of the plugin runs
  res,      \* the engine's last result
  file,     \* the text of the document, a sequence of lines
  orig,     \* the text before the first pass
  prev,     \* the text before the latest pass
  pass,     \* how many passes (or cycles) have run
  wrote,    \* whether the latest pass requested a write
  modifyTimer,    \* the shared debounce of the "modify" handler is armed with
                  \* the document
  changedTimers,  \* armed debounces created by the "changed" handler
  writing,        \* bag of texts that passes in flight are about to write
  edits,          \* how many edits the user has made
  lastCheckedState,     \* the checkbox snapshot kept for the document, if any
  isProgrammaticWrite,  \* the self-write suppression flag
  changedEvents,  \* "changed" notifications not yet delivered: what caused each
  flagTimers,     \* pending timers that will lower isProgrammaticWrite
  trigger,        \* what started the pass that is followed step by step
  readContent,    \* its `content`, the text vault.read gave it
  toggled,        \* the lines it was called with (handleCompletions)
  cursor,         \* how many iterations its loop has made
  outLines,       \* its array `out` (processFile) or `lines` (handleCompletions)
  mutated,        \* its flag `mutated` (processFile) or `modified`
  writes,         \* how many times it has called vault.modify
  notices,        \* the Notices it has shown
  failure         \* how its read or its write failed, if it did

vars == <<line, now, phase, variant, res, file, orig, prev, pass, wrote,
          modifyTimer, changedTimers, writing, edits,
          lastCheckedState, isProgrammaticWrite, changedEvents, flagTimers,
          trigger, readContent, toggled, cursor, outLines, mutated, writes,
          notices, failure>>
eventVars == <<lastCheckedState, isProgrammaticWrite, changedEvents, flagTimers>>
passVars == <<trigger, readContent, toggled, cursor, outLines, mutated, writes,
              notices, failure>>
hostVars == <<modifyTimer, changedTimers, writing, edits,
              lastCheckedState, isProgrammaticWrite, changedEvents, flagTimers,
              trigger, readContent, toggled, cursor, outLines, mutated, writes,
              notices, failure>>
docVars == <<file, orig, prev, pass, wrote>>
engineVars == <<line, phase, res>>

(***************************************************************************)
(* Bounds of the model.                                                    *)
(***************************************************************************)
MaxBody == 3
MaxLines == 3
MaxPasses == 3
MaxCycles == 5
MaxEdits == 2
MaxTimers == 2
MaxProcs == 2
MaxRunDay == 40

(***************************************************************************)
(* Tokens.                                                                 *)
(***************************************************************************)
P(s) == [t |-> s, d |-> <<>>]
Dated(g, iso) == [t |-> g, d |-> iso]
Rep(digits) == [t |-> "#repeat_", d |-> digits]

NEXT_SCHEDULED_TAG == "#nextscheduled"

Max(S) == CHOOSE x \in S : \A y \in S : y <= x
Min(S) == CHOOSE x \in S : \A y \in S : x <= y

\* String.prototype.toLowerCase on the token texts of the model.
ToLower(s) ==
  CASE s = "#Revise_90" -> "#revise_90"
    [] s = "[X]" -> "[x]"
    [] OTHER -> s

(***************************************************************************)
(* Calendar dates <<y, m, d>> and moment's day arithmetic.                 *)
(***************************************************************************)
DaysFromCivil(iso) ==
  LET y0 == IF iso[2] <= 2 THEN iso[1] - 1 ELSE iso[1]
      era == y0 \div 400
      yoe == y0 - era * 400
      mp == (iso[2] + 9) % 12
      doy == (153 * mp + 2) \div 5 + iso[3] - 1
      doe == yoe * 365 + yoe \div 4 - yoe \div 100 + doy
  IN era * 146097 + doe - 719468

CivilFromDays(z0) ==
  LET z == z0 + 719468
      era == z \div 146097
      doe == z - era * 146097
      yoe == (doe - doe \div 1460 + doe \div 36524 - doe \div 146096) \div 365
      doy == doe - (365 * yoe + yoe \div 4 - yoe \div 100)
      mp == (5 * doy + 2) \div 153
      d == doy - (153 * mp + 2) \div 5 + 1
      m == IF mp < 10 THEN mp + 3 ELSE mp - 9
      y == yoe + era * 400 + (IF m <= 2 THEN 1 ELSE 0)
  IN <<y, m, d>>

\* moment(iso).add(n, "days").format("YYYY-MM-DD")
\* (the date and the day number are each evaluated once)
momentAddDays(iso, n) ==
  LET days == {DaysFromCivil(d) + n : d \in {iso}}
  IN CHOOSE r \in {CivilFromDays(z) : z \in days} : TRUE

(***************************************************************************)
(* V2: src/main.js 168-394.                                                *)
(***************************************************************************)
\* A ladder whose #revise_30 rung waits 60 days.
STAGES_Days60 ==
  [tag \in {"#revise", "#revise_7", "#revise_30", "#revise_90", "#revise_365"} |->
     CASE tag = "#revise"     -> [nextTag |-> "#revise_7",   plusDays |-> 7]
       [] tag = "#revise_7"   -> [nextTag |-> "#revise_30",  plusDays |-> 30]
       [] tag = "#revise_30"  -> [nextTag |-> "#revise_90",  plusDays |-> 60]
       [] tag = "#revise_90"  -> [nextTag |-> "#revise_365", plusDays |-> 365]
       [] tag = "#revise_365" -> [nextTag |-> "#revise_365", plusDays |-> 365]]

\* A ladder that starts over after #revise_365 instead of looping on it.
STAGES_Restart ==
  [tag \in {"#revise", "#revise_7", "#revise_30", "#revise_90", "#revise_365"} |->
     CASE tag = "#revise"     -> [nextTag |-> "#revise_7",   plusDays |-> 7]
       [] tag = "#revise_7"   -> [nextTag |-> "#revise_30",  plusDays |-> 30]
       [] tag = "#revise_30"  -> [nextTag |-> "#revise_90",  plusDays |-> 90]
       [] tag = "#revise_90"  -> [nextTag |-> "#revise_365", plusDays |-> 365]
       [] tag = "#revise_365" -> [nextTag |-> "#revise",     plusDays |-> 365]]

STAGES ==
  [tag \in {"#revise", "#revise_7", "#revise_30", "#revise_90", "#revise_365"} |->
     CASE tag = "#revise"     -> [nextTag |-> "#revise_7",   plusDays |-> 7]
       [] tag = "#revise_7"   -> [nextTag |-> "#revise_30",  plusDays |-> 30]
       [] tag = "#revise_30"  -> [nextTag |-> "#revise_90",  plusDays |-> 90]
       [] tag = "#revise_90"  -> [nextTag |-> "#revise_365", plusDays |-> 365]
       [] tag = "#revise_365" -> [nextTag |-> "#revise_365", plusDays |-> 365]]

\* /^\s*-\s*\[x\]\s+/i : "-", then "[x]" or "[X]", then white space.
TASK_DONE_RE(l) ==
  /\ Len(l) >= 3
  /\ l[1] = P("-")
  /\ l[2] \in {P("[x]"), P("[X]")}

\* /^\s*-\s*\[\s\]\s+/
TASK_OPEN_RE(l) ==
  /\ Len(l) >= 3
  /\ l[1] = P("-")
  /\ l[2] = P("[ ]")

\* /(^|\s)#revise(?:_(?:7|30|90|365))?\b/gi matched at one token: the tag
\* must be followed by a word boundary, so "#revised" does not match.
REVISE_ANY_RE(tok) ==
  /\ tok.d = <<>>
  /\ ToLower(tok.t) \in {"#revise", "#revise_7", "#revise_30", "#revise_90", "#revise_365"}

NotREVISE_ANY_RE(tok) == ~REVISE_ANY_RE(tok)

\* /\s*(?:CAL|HOURGLASS)\s*\d{4}-\d{2}-\d{2}/g
DUE_TOKENS_RE(tok) == tok.t \in {"CAL", "HOURGLASS"} /\ Len(tok.d) = 3
\* /\s*PLUS\s*\d{4}-\d{2}-\d{2}/g
CREATED_RE(tok) == tok.t = "PLUS" /\ Len(tok.d) = 3
\* /CHECK\s*(\d{4}-\d{2}-\d{2})/ and /\s*CHECK\s*\d{4}-\d{2}-\d{2}/g
DONE_DATE_RE(tok) == tok.t = "CHECK" /\ Len(tok.d) = 3

NotDateToken(tok) == ~(DUE_TOKENS_RE(tok) \/ CREATED_RE(tok) \/ DONE_DATE_RE(tok))

\* A test that looks for the sentinel at the end of the line only.
includesNextScheduled_AtEnd(l) == l # <<>> /\ l[Len(l)] = P(NEXT_SCHEDULED_TAG)

\* line.includes(NEXT_SCHEDULED_TAG)
includesNextScheduled(l) == \E i \in 1..Len(l) : l[i] = P(NEXT_SCHEDULED_TAG)

NoTag == "null"

\* The longest #revise* match of the line, lower-cased; the sort is stable,
\* so among the longest the first found is taken.
getReviseTagFromLine(l) ==
  LET matches == SelectSeq(l, REVISE_ANY_RE)
  IN IF matches = <<>> THEN NoTag
     ELSE LET longest == Max({Len(matches[i].t) : i \in 1..Len(matches)})
              first == Min({i \in 1..Len(matches) : Len(matches[i].t) = longest})
          IN ToLower(matches[first].t)

\* A base date that ignores the completion date.
getCompletionBaseDateISO_Today(l, today) == today

\* The date of the first CHECK token, else today.
getCompletionBaseDateISO(l, today) ==
  LET done == SelectSeq(l, DONE_DATE_RE)
  IN IF done # <<>> THEN done[1].d ELSE today

buildNextOpenTaskLine(original, nextTag, dueISO) ==
  LET s1 == IF TASK_DONE_RE(original)
            THEN [original EXCEPT ![2] = IF @ = P("[x]") THEN P("[ ]") ELSE @]
            ELSE original
      s2 == SelectSeq(s1, NotREVISE_ANY_RE)
      s3 == SelectSeq(s2, NotDateToken)
      s5 == IF TASK_OPEN_RE(s3) THEN s3 ELSE <<P("-"), P("[ ]")>> \o s3
  IN s5 \o <<Dated("HOURGLASS", dueISO), P(nextTag)>>

NoResult(l) == [fired |-> FALSE, marked |-> l, next |-> <<>>]

\* An iteration that inserts the successor but does not mark the original.
processFileLine_NoMark(l, today) ==
  IF ~TASK_DONE_RE(l) THEN NoResult(l)
  ELSE IF includesNextScheduled(l) THEN NoResult(l)
  ELSE LET tag == getReviseTagFromLine(l)
       IN IF tag = NoTag \/ tag \notin DOMAIN STAGES THEN NoResult(l)
          ELSE [fired |-> TRUE, marked |-> l,
                next |-> buildNextOpenTaskLine(l, STAGES[tag].nextTag,
                           momentAddDays(getCompletionBaseDateISO(l, today),
                                         STAGES[tag].plusDays))]

\* One iteration of processFile's loop: what the line becomes in `out`.
processFileLine(l, today) ==
  IF ~TASK_DONE_RE(l) THEN NoResult(l)
  ELSE IF includesNextScheduled(l) THEN NoResult(l)
  ELSE LET tag == getReviseTagFromLine(l)
       IN IF tag = NoTag \/ tag \notin DOMAIN STAGES THEN NoResult(l)
          ELSE LET stage == STAGES[tag]
                   baseISO == getCompletionBaseDateISO(l, today)
                   dueISO == momentAddDays(baseISO, stage.plusDays)
               IN [fired |-> TRUE,
                   marked |-> IF includesNextScheduled(l) THEN l
                              ELSE Append(l, P(NEXT_SCHEDULED_TAG)),
                   next |-> buildNextOpenTaskLine(l, stage.nextTag, dueISO)]

(***************************************************************************)
(* V1: src/main.js 1-167, the first version of processFile.                *)
(***************************************************************************)
REVISE_TAGS_V1 == <<"#revise", "#revise_7", "#revise_30", "#revise_90", "#revise_365">>

\* String.prototype.includes(sub) on one (lower-cased) token text.
StrIncludes(s, sub) ==
  \/ s = sub
  \/ sub = "#revise" /\ s \in {"#revise_7", "#revise_30", "#revise_90", "#revise_365", "#revised"}

\* REVISE_TAGS.find((t) => line.toLowerCase().includes(t))
findIncludedTagV1(l) ==
  LET hits == {k \in 1..Len(REVISE_TAGS_V1) :
                 \E i \in 1..Len(l) :
                   l[i].d = <<>> /\ StrIncludes(ToLower(l[i].t), REVISE_TAGS_V1[k])}
  IN IF hits = {} THEN NoTag ELSE REVISE_TAGS_V1[Min(hits)]

\* /\s+#revise(?:_(?:7|30|90|365))?\b/i : the first match, which needs white
\* space before it.
reviseMatchV1(l) ==
  LET hits == {i \in 2..Len(l) : REVISE_ANY_RE(l[i])}
  IN IF hits = {} THEN 0 ELSE Min(hits)

\* /\s*CAL\s*\d{4}-\d{2}-\d{2}/ : the first match.
dueMatchV1(l) ==
  LET hits == {i \in 1..Len(l) : l[i].t = "CAL" /\ Len(l[i].d) = 3}
  IN IF hits = {} THEN 0 ELSE Min(hits)

\* s with its i-th token removed (i = 0: nothing to remove).
RemoveAt(s, i) ==
  IF i = 0 THEN s ELSE SubSeq(s, 1, i - 1) \o SubSeq(s, i + 1, Len(s))

processFileLineV1(l, today) ==
  IF ~(TASK_DONE_RE(l) /\ reviseMatchV1(l) # 0 /\ ~includesNextScheduled(l))
  THEN NoResult(l)
  ELSE LET tag == findIncludedTagV1(l)
       IN IF tag = NoTag \/ tag \notin DOMAIN STAGES THEN NoResult(l)
          ELSE LET stage == STAGES[tag]
                   due == momentAddDays(today, stage.plusDays)
                   c1 == [l EXCEPT ![2] = IF @ = P("[x]") THEN P("[ ]") ELSE @]
                   c2 == RemoveAt(c1, reviseMatchV1(c1))
                   c3 == RemoveAt(c2, dueMatchV1(c2))
                   openTask == IF TASK_OPEN_RE(c3) THEN c3
                               ELSE <<P("-"), P("[ ]")>> \o c3
               IN [fired |-> TRUE,
                   marked |-> IF includesNextScheduled(l) THEN l
                              ELSE Append(l, P(NEXT_SCHEDULED_TAG)),
                   next |-> openTask \o <<Dated("CAL", due), P(stage.nextTag)>>]

(***************************************************************************)
(* VR: src/verify_repeat.js, the engine with #repeat_N.                    *)
(***************************************************************************)
RECURSIVE parseInt(_)
\* parseInt(digits, 10)
parseInt(ds) ==
  IF ds = <<>> THEN 0
  ELSE 10 * parseInt(SubSeq(ds, 1, Len(ds) - 1)) + ds[Len(ds)]

RECURSIVE ToDigits(_)
\* The decimal digits of a number, as the template `#repeat_${days}` writes it.
ToDigits(n) == IF n < 10 THEN <<n>> ELSE Append(ToDigits(n \div 10), n % 10)

\* The digits that /(^|\s)#repeat_(\d+)\b/i captures in one token: they must
\* end at a word boundary, which the end of the token and a "." are and a
\* letter is not ("#repeat_1.5" gives 1, "#repeat_3x" does not match).
repeatCaptureVR(tok) ==
  CASE tok.t = "#repeat_" /\ tok.d # <<>> -> tok.d
    [] tok = P("#repeat_1.5") -> <<1>>
    [] OTHER -> <<>>

\* What is left of a token once the match is removed from it.
afterRepeatMatch(tok) == IF tok = P("#repeat_1.5") THEN <<P(".5")>> ELSE <<>>

\* /(^|\s)#repeat_(\d+)\b/i at one token
REPEAT_ANY_RE(tok) == repeatCaptureVR(tok) # <<>>

NoRepeat == [tag |-> P(NoTag), days |-> 0]

getRepeatTagFromLine(l) ==
  LET m == SelectSeq(l, REPEAT_ANY_RE)
  IN IF m = <<>> THEN NoRepeat
     ELSE LET days == parseInt(repeatCaptureVR(m[1]))
          IN IF days <= 0 THEN NoRepeat
             ELSE [tag |-> Rep(ToDigits(days)), days |-> days]

\* A builder that leaves the old repeat tag in the copied body.
stripFirstRepeat_Keep(s) == s

\* s.replace(REPEAT_ANY_RE, ""): the expression is not global, the first
\* match only is removed (what follows the match in its token stays, here
\* as a token of its own).
stripFirstRepeat(s) ==
  LET hits == {i \in 1..Len(s) : REPEAT_ANY_RE(s[i])}
  IN IF hits = {} THEN s
     ELSE LET i == Min(hits)
          IN SubSeq(s, 1, i - 1) \o afterRepeatMatch(s[i]) \o SubSeq(s, i + 1, Len(s))

buildNextOpenTaskLineVR(original, nextTag, dueISO) ==
  LET s1 == IF TASK_DONE_RE(original)
            THEN [original EXCEPT ![2] = IF @ = P("[x]") THEN P("[ ]") ELSE @]
            ELSE original
      s2 == SelectSeq(s1, NotREVISE_ANY_RE)
      s3 == stripFirstRepeat(s2)
      s4 == SelectSeq(s3, NotDateToken)
      s5 == stripFirstRepeat(s4)
      s6 == IF TASK_OPEN_RE(s5) THEN s5 ELSE <<P("-"), P("[ ]")>> \o s5
  IN s6 \o <<Dated("HOURGLASS", dueISO), nextTag>>

\* processLine returns the next line or null; it does not mark the original.
processLine(l, today) ==
  IF ~TASK_DONE_RE(l) THEN NoResult(l)
  ELSE IF includesNextScheduled(l) THEN NoResult(l)
  ELSE LET tag == getReviseTagFromLine(l)
           repeatInfo == getRepeatTagFromLine(l)
           baseISO == getCompletionBaseDateISO(l, today)
       IN IF tag # NoTag /\ tag \in DOMAIN STAGES
          THEN [fired |-> TRUE, marked |-> l,
                next |-> buildNextOpenTaskLineVR(l, P(STAGES[tag].nextTag),
                           momentAddDays(baseISO, STAGES[tag].plusDays))]
          ELSE IF repeatInfo # NoRepeat
          THEN [fired |-> TRUE, marked |-> l,
                next |-> buildNextOpenTaskLineVR(l, repeatInfo.tag,
                           momentAddDays(baseISO, repeatInfo.days))]
          ELSE NoResult(l)

(***************************************************************************)
(* EV: src/unnamed/part_000, handleCompletions on one toggled line.        *)
(***************************************************************************)
\* this.STAGES: the ladder ends at #revise_90 (nextTag: null).
STAGES_EV ==
  << [tag |-> "#revise",    nextTag |-> "#revise_7",  offsetDays |-> 7],
     [tag |-> "#revise_7",  nextTag |-> "#revise_30", offsetDays |-> 30],
     [tag |-> "#revise_30", nextTag |-> "#revise_90", offsetDays |-> 90],
     [tag |-> "#revise_90", nextTag |-> NoTag,        offsetDays |-> 0] >>

\* [...STAGES.map(s => s.tag)].sort((a, b) => b.length - a.length), stable.
tagsByLength == <<"#revise_30", "#revise_90", "#revise_7", "#revise">>

\* new RegExp(`(^|\\s)${t}(\\s|$)`): the tag as a whole token, case-sensitive.
findStageTag(l) ==
  LET hits == {k \in 1..Len(tagsByLength) :
                 \E i \in 1..Len(l) : l[i] = P(tagsByLength[k])}
  IN IF hits = {} THEN NoTag ELSE tagsByLength[Min(hits)]

replaceStageTag(text, currentTag, nextTag) ==
  LET hits == {i \in 1..Len(text) : text[i] = P(currentTag)}
  IN IF hits # {} THEN [text EXCEPT ![Min(hits)] = P(nextTag)]
     ELSE Append(text, P(nextTag))

\* An append that puts the tag in the place of the block reference.
appendTagPreservingBlockId_ReplaceId(l, tag) ==
  IF \E i \in 1..Len(l) : l[i].d = <<>> /\ ToLower(l[i].t) = tag THEN l
  ELSE IF Len(l) >= 2 /\ l[Len(l)] = P("^id")
       THEN SubSeq(l, 1, Len(l) - 1) \o <<P(tag)>>
       ELSE Append(l, P(tag))

appendTagPreservingBlockId(l, tag) ==
  IF \E i \in 1..Len(l) : l[i].d = <<>> /\ ToLower(l[i].t) = tag THEN l
  ELSE IF Len(l) >= 2 /\ l[Len(l)] = P("^id")
       THEN SubSeq(l, 1, Len(l) - 1) \o <<P(tag), P("^id")>>
       ELSE Append(l, P(tag))

\* /^\s*(?:-|\d+\.)\s*\[([ xX])\]/ with a checked box
checkboxMatchEV(l) ==
  /\ Len(l) >= 2
  /\ l[1] \in {P("-"), P("1.")}
  /\ l[2] \in {P("[x]"), P("[X]")}

\* /(^|\s)#nextscheduled(\s|$)/i
alreadyProcessedEV(l) ==
  \E i \in 1..Len(l) : l[i].d = <<>> /\ ToLower(l[i].t) = NEXT_SCHEDULED_TAG

\* The line without its leading checkbox markup, which needs white space
\* after the box.
strippedEV(l) ==
  IF Len(l) >= 3 /\ l[1] \in {P("-"), P("1.")} /\ l[2] \in {P("[x]"), P("[X]"), P("[ ]")}
  THEN SubSeq(l, 3, Len(l)) ELSE l

\* /(?:CAL|HOURGLASS|CHECK)\s+\d{4}-\d{2}-\d{2}/g
NotDateTokenEV(tok) == ~(tok.t \in {"CAL", "HOURGLASS", "CHECK"} /\ Len(tok.d) = 3)

\* The digits that /#repeat_(\d+)/ captures in one token: the expression is
\* anchored at neither end, so anything may follow the digits
\* ("#repeat_1.5" gives 1, "#repeat_3x" gives 3).
repeatCaptureEV(tok) ==
  CASE tok.t = "#repeat_" /\ tok.d # <<>> -> tok.d
    [] tok = P("#repeat_1.5") -> <<1>>
    [] tok = P("#repeat_3x") -> <<3>>
    [] OTHER -> <<>>

REPEAT_RE_EV(tok) == repeatCaptureEV(tok) # <<>>

\* original.match(/#repeat_(\d+)/): the first match
repeatMatchEV(l) == SelectSeq(l, REPEAT_RE_EV)

handleCompletionsLine(l, today) ==
  IF ~checkboxMatchEV(l) THEN NoResult(l)
  ELSE IF alreadyProcessedEV(l) THEN NoResult(l)
  ELSE LET taskTextForNew == SelectSeq(strippedEV(l), NotDateTokenEV)
           rm == repeatMatchEV(l)
           days == IF rm = <<>> THEN 0 ELSE parseInt(repeatCaptureEV(rm[1]))
           stage == findStageTag(l)
           mapping == IF stage = NoTag THEN STAGES_EV[4]
                      ELSE STAGES_EV[CHOOSE k \in 1..Len(STAGES_EV) : STAGES_EV[k].tag = stage]
       IN IF days > 0
          THEN [fired |-> TRUE,
                marked |-> appendTagPreservingBlockId(l, NEXT_SCHEDULED_TAG),
                next |-> <<P("-"), P("[ ]")>> \o taskTextForNew
                           \o <<Dated("HOURGLASS", momentAddDays(today, days))>>]
          ELSE IF stage # NoTag /\ mapping.nextTag # NoTag /\ mapping.offsetDays # 0
          THEN [fired |-> TRUE,
                marked |-> appendTagPreservingBlockId(l, NEXT_SCHEDULED_TAG),
                next |-> <<P("-"), P("[ ]")>>
                           \o replaceStageTag(taskTextForNew, stage, mapping.nextTag)
                           \o <<Dated("HOURGLASS", momentAddDays(today, mapping.offsetDays))>>]
          ELSE NoResult(l)

(***************************************************************************)
(* TS: src/main.ts, the first event-driven version: handleCompletions on   *)
(* one toggled line.  The ladder and findStageTag are those of EV; the     *)
(* original line is not marked and #repeat_N is not known.                 *)
(***************************************************************************)
\* /^\s*-\s*\[[ xX]\]\s+/ or /^\s*\d+\.\s*\[[ xX]\]\s+/ : any checkbox.
isCheckboxTS(l) ==
  /\ Len(l) >= 3
  /\ l[1] \in {P("-"), P("1.")}
  /\ l[2] \in {P("[x]"), P("[X]"), P("[ ]")}

\* /CAL\s+\d{4}-\d{2}-\d{2}/g
NotCalTokenTS(tok) == ~(tok.t = "CAL" /\ Len(tok.d) = 3)

handleCompletionsLineTS(l, today) ==
  IF ~isCheckboxTS(l) THEN NoResult(l)
  ELSE LET stage == findStageTag(l)
           mapping == IF stage = NoTag THEN STAGES_EV[4]
                      ELSE STAGES_EV[CHOOSE k \in 1..Len(STAGES_EV) : STAGES_EV[k].tag = stage]
       IN IF stage = NoTag \/ mapping.nextTag = NoTag \/ mapping.offsetDays = 0
          THEN NoResult(l)
          ELSE LET noDate == SelectSeq(strippedEV(l), NotCalTokenTS)
               IN [fired |-> TRUE,
                   marked |-> l,
                   next |-> <<P("-"), P("[ ]")>>
                              \o replaceStageTag(noDate, stage, mapping.nextTag)
                              \o <<Dated("CAL", momentAddDays(today, mapping.offsetDays))>>]

(***************************************************************************)
(* The lines the engine is run on: a list marker and checkbox followed by  *)
(* at most MaxBody body tokens, typed one at a time.                       *)
(***************************************************************************)
D1 == <<2023, 1, 1>>
D2 == <<2024, 2, 25>>
Nows == {<<2023, 2, 1>>, <<2024, 12, 30>>}

Prefixes ==
  { <<P("-"), P("[x]")>>, <<P("-"), P("[X]")>>, <<P("-"), P("[ ]")>>,
    <<P("1."), P("[x]")>> }

BodyTokens ==
  { P("Task"),
    P("#revise"), P("#revise_7"), P("#revise_30"), P("#revise_90"), P("#revise_365"),
    P("#Revise_90"), P("#revised"),
    Rep(<<3>>), Rep(<<7>>), Rep(<<0>>), Rep(<<0, 3>>), P("#repeat_x"),
    Dated("CAL", D1), Dated("HOURGLASS", D1), Dated("PLUS", D1),
    Dated("CHECK", D1), Dated("CHECK", D2),
    P(NEXT_SCHEDULED_TAG), P("^id") }

NoRes == [fired |-> FALSE, marked |-> <<>>, next |-> <<>>]

\* this.lastCheckedState.get(path) when the map has no entry for the path.
NoSnapshot == [has |-> FALSE, checked |-> {}]

\* No read or write has failed.
NoFailure == [at |-> "none", caught |-> FALSE, logged |-> FALSE]

IdlePass ==
  /\ trigger = "none"
  /\ readContent = <<>>
  /\ toggled = {}
  /\ cursor = 0
  /\ outLines = <<>>
  /\ mutated = FALSE
  /\ writes = 0
  /\ notices = <<>>
  /\ failure = NoFailure

IdleHost ==
  /\ modifyTimer = FALSE
  /\ changedTimers = 0
  /\ writing = EmptyBag
  /\ edits = 0
  /\ lastCheckedState = NoSnapshot
  /\ isProgrammaticWrite = FALSE
  /\ changedEvents = <<>>
  /\ flagTimers = 0
  /\ IdlePass

IdleDoc ==
  /\ file = <<>>
  /\ orig = <<>>
  /\ prev = <<>>
  /\ pass = 0
  /\ wrote = FALSE
  /\ IdleHost

InitEngine ==
  /\ line \in Prefixes
  /\ now \in Nows
  /\ phase = "edit"
  /\ variant = "none"
  /\ res = NoRes
  /\ IdleDoc

TypeToken ==
  /\ phase = "edit"
  /\ Len(line) < 2 + MaxBody
  /\ \E tok \in BodyTokens : line' = Append(line, tok)
  /\ UNCHANGED <<now, phase, variant, res>>
  /\ UNCHANGED docVars
  /\ UNCHANGED hostVars

Eval(v, r) ==
  /\ phase = "edit"
  /\ phase' = "done"
  /\ variant' = v
  /\ res' = r
  /\ UNCHANGED <<line, now>>
  /\ UNCHANGED docVars
  /\ UNCHANGED hostVars

EvalV1 == Eval("V1", processFileLineV1(line, now))
EvalV2 == Eval("V2", processFileLine(line, now))
EvalVR == Eval("VR", processLine(line, now))
EvalEV == Eval("EV", handleCompletionsLine(line, now))

NextEngine == TypeToken \/ EvalV1 \/ EvalV2 \/ EvalVR \/ EvalEV

SpecEngine == InitEngine /\ [][NextEngine]_vars

(***************************************************************************)
(* The engines with #repeat_N (VR and EV) on lines whose body is made of   *)
(* repeat tags of every shape: a count of zero, no digits, a sign, a       *)
(* fraction, a letter after the digits.                                    *)
(***************************************************************************)
RepeatTokens ==
  { P("Task"),
    Rep(<<3>>), Rep(<<0>>), Rep(<<0, 0>>),
    P("#repeat_"), P("#repeat_x"), P("#repeat_-1"), P("#repeat_1.5"), P("#repeat_3x"),
    P("#revised"), Dated("CHECK", D1), P("^id") }

TypeRepeatToken ==
  /\ phase = "edit"
  /\ Len(line) < 2 + MaxBody
  /\ \E tok \in RepeatTokens : line' = Append(line, tok)
  /\ UNCHANGED <<now, phase, variant, res>>
  /\ UNCHANGED docVars
  /\ UNCHANGED hostVars

NextRepeat == TypeRepeatToken \/ EvalVR \/ EvalEV

SpecRepeat == InitEngine /\ [][NextRepeat]_vars

(***************************************************************************)
(* The two event-driven handlers (EV and TS), whose ladder ends at         *)
(* #revise_90, on lines in either list style whose body is made of the     *)
(* tags of that ladder, repeat tags, a due date, the sentinel and a block  *)
(* reference.                                                              *)
(***************************************************************************)
LadderTokens ==
  { P("Task"),
    P("#revise"), P("#revise_7"), P("#revise_30"), P("#revise_90"),
    Rep(<<3>>), Rep(<<0>>),
    Dated("CAL", D1), P(NEXT_SCHEDULED_TAG), P("^id") }

TypeLadderToken ==
  /\ phase = "edit"
  /\ Len(line) < 2 + MaxBody
  /\ \E tok \in LadderTokens : line' = Append(line, tok)
  /\ UNCHANGED <<now, phase, variant, res>>
  /\ UNCHANGED docVars
  /\ UNCHANGED hostVars

EvalTS == Eval("TS", handleCompletionsLineTS(line, now))

NextHandlers == TypeLadderToken \/ EvalEV \/ EvalTS

SpecHandlers == InitEngine /\ [][NextHandlers]_vars

(***************************************************************************)
(* processFile on a whole text: the lines are walked top to bottom into a  *)
(* fresh `out`; a write is requested if a line fired and the joined text   *)
(* differs from the text read.                                             *)
(***************************************************************************)
lineStep(v, l, today) ==
  IF v = "V1" THEN processFileLineV1(l, today) ELSE processFileLine(l, today)

\* A loop that collects the successors and pushes them after the last line.
outOf_SuccessorsLast(v, content, today) ==
  LET out[i \in 0..Len(content)] ==
        IF i = 0 THEN <<>>
        ELSE LET r == lineStep(v, content[i], today)
             IN out[i - 1] \o (IF r.fired THEN <<r.marked>> ELSE <<content[i]>>)
      nexts[i \in 0..Len(content)] ==
        IF i = 0 THEN <<>>
        ELSE LET r == lineStep(v, content[i], today)
             IN nexts[i - 1] \o (IF r.fired THEN <<r.next>> ELSE <<>>)
  IN out[Len(content)] \o nexts[Len(content)]

\* `out` once the loop has walked the first i lines.
outOf(v, content, today) ==
  LET out[i \in 0..Len(content)] ==
        IF i = 0 THEN <<>>
        ELSE LET r == lineStep(v, content[i], today)
             IN out[i - 1] \o (IF r.fired THEN <<r.marked, r.next>> ELSE <<content[i]>>)
  IN out[Len(content)]

\* The loop of processFile: the new text and whether any line fired.
processFile(v, content, today) ==
  [out |-> outOf(v, content, today),
   mutated |-> \E i \in 1..Len(content) : lineStep(v, content[i], today).fired]

\* if (mutated) { ... if (newContent !== content) await vault.modify(...) }
writeRequested(r, content) == r.mutated /\ r.out # content

\* The lines the texts of SpecDoc are made of.
DocLines ==
  { <<P("-"), P("[x]"), P("Task"), P("#revise"), Dated("CHECK", D1)>>,
    <<P("-"), P("[X]"), P("#revise_365")>>,
    <<P("-"), P("[ ]"), P("Task"), P("#revise_7"), Dated("HOURGLASS", D1)>>,
    <<P("-"), P("[x]"), P("Task"), P("#revise_90"), P(NEXT_SCHEDULED_TAG)>>,
    <<P("-"), P("[x]"), P("Task"), P("#revise_30"), P("#revise"),
      Dated("CAL", D1), Dated("CAL", D1)>>,
    <<P("Task")>>,
    <<>> }

InitDoc ==
  /\ file \in {<<l>> : l \in DocLines}
  /\ now \in Nows
  /\ variant \in {"V1", "V2"}
  /\ orig = <<>>
  /\ prev = <<>>
  /\ pass = 0
  /\ wrote = FALSE
  /\ line = <<>>
  /\ phase = "doc"
  /\ res = NoRes
  /\ IdleHost

\* The user adds a line to the text before the first pass.
AddLine ==
  /\ pass = 0
  /\ Len(file) < MaxLines
  /\ \E l \in DocLines : file' = Append(file, l)
  /\ UNCHANGED <<now, variant, orig, prev, pass, wrote>>
  /\ UNCHANGED engineVars
  /\ UNCHANGED hostVars

\* One run of processFile on the document, its write included.
ProcessFilePass ==
  /\ pass < MaxPasses
  /\ \E r \in {processFile(variant, file, now)} :
       /\ file' = IF writeRequested(r, file) THEN r.out ELSE file
       /\ wrote' = writeRequested(r, file)
  /\ prev' = file
  /\ orig' = IF pass = 0 THEN file ELSE orig
  /\ pass' = pass + 1
  /\ UNCHANGED <<now, variant>>
  /\ UNCHANGED engineVars
  /\ UNCHANGED hostVars

NextDoc == AddLine \/ ProcessFilePass

SpecDoc == InitDoc /\ [][NextDoc]_vars

(***************************************************************************)
(* Vocabulary of the claims.                                               *)
(***************************************************************************)
RECURSIVE DigitsValue(_)
\* The number a digit sequence writes.
DigitsValue(ds) ==
  IF ds = <<>> THEN 0 ELSE 10 * DigitsValue(SubSeq(ds, 1, Len(ds) - 1)) + ds[Len(ds)]

StageTagNames == {"#revise", "#revise_7", "#revise_30", "#revise_90", "#revise_365"}
IsStageTag(tok) == tok.d = <<>> /\ ToLower(tok.t) \in StageTagNames
\* #repeat_N with N a positive integer.
IsRepeatTag(tok) == tok.t = "#repeat_" /\ tok.d # <<>> /\ DigitsValue(tok.d) > 0
\* #repeat_<digits>, valid or not.
IsRepeatShaped(tok) == tok.t = "#repeat_" /\ tok.d # <<>>
IsSchedTag(tok) == IsStageTag(tok) \/ IsRepeatTag(tok)
IsDue(tok) == tok.t \in {"CAL", "HOURGLASS"} /\ tok.d # <<>>
IsCreated(tok) == tok.t = "PLUS" /\ tok.d # <<>>
IsDone(tok) == tok.t = "CHECK" /\ tok.d # <<>>
IsSentinel(tok) == tok = P("#nextscheduled")

Has(l, Test(_)) == \E i \in 1..Len(l) : Test(l[i])
Count(l, Test(_)) == Cardinality({i \in 1..Len(l) : Test(l[i])})
First(l, Test(_)) == l[Min({i \in 1..Len(l) : Test(l[i])})]

\* A checked "- [x] ..." item that does not carry the sentinel.
Eligible(l) ==
  /\ Len(l) >= 3
  /\ l[1] = P("-")
  /\ l[2] \in {P("[x]"), P("[X]")}
  /\ ~Has(l, IsSentinel)

\* The ladder as the claims state it.
LadderNext(T) ==
  CASE T = "#revise" -> "#revise_7"
    [] T = "#revise_7" -> "#revise_30"
    [] T = "#revise_30" -> "#revise_90"
    [] T = "#revise_90" -> "#revise_365"
    [] T = "#revise_365" -> "#revise_365"
LadderDays(T) ==
  CASE T = "#revise" -> 7
    [] T = "#revise_7" -> 30
    [] T = "#revise_30" -> 90
    [] T = "#revise_90" -> 365
    [] T = "#revise_365" -> 365

\* The stage tags of a line that no longer stage tag of the line exceeds.
LongestStageTags(l) ==
  LET tags == {ToLower(l[i].t) : i \in {j \in 1..Len(l) : IsStageTag(l[j])}}
  IN {T \in tags : \A U \in tags : Len(U) <= Len(T)}

\* The completion date of the line if it has one, else today.
BaseDate(l, today) == IF Has(l, IsDone) THEN First(l, IsDone).d ELSE today

\* n days after iso, counted in days.
IsDaysAfter(due, iso, n) == DaysFromCivil(due) = DaysFromCivil(iso) + n

Done(v) == phase = "done" /\ variant = v

(***************************************************************************)
(* C3: a line that contains the sentinel #nextscheduled is never           *)
(* rescheduled: whatever its checkbox, stage tag or repeat tag, the engine *)
(* (in every variant) returns no result, leaves the line unchanged and     *)
(* generates no successor.                                                 *)
(***************************************************************************)
C3_SentinelNeverRescheduled ==
  (phase = "done" /\ Has(line, IsSentinel)) =>
     (~res.fired /\ res.marked = line /\ res.next = <<>>)

\* A checked item with a stage tag and the sentinel was evaluated (by EV).
C3_Witness ==
  /\ Done("EV")
  /\ line[2] = P("[x]")
  /\ Has(line, IsStageTag)
  /\ Has(line, IsSentinel)

\* The same, evaluated by V2.
C3_WitnessV2 ==
  /\ Done("V2")
  /\ TASK_DONE_RE(line)
  /\ Has(line, IsStageTag)
  /\ Has(line, IsSentinel)

(***************************************************************************)
(* C4: ladder step (V2).  For every eligible completed line whose resolved *)
(* stage tag is T, the generated line ends with the tag LadderNext(T) and  *)
(* its due date is LadderDays(T) days after the base date; "- [x] Task     *)
(* #revise CHECK 2023-01-01" yields #revise_7 due 2023-01-08.              *)
(***************************************************************************)
C4_LadderStep ==
  (Done("V2") /\ Eligible(line) /\ Has(line, IsStageTag)) =>
     /\ res.fired
     /\ \E T \in LongestStageTags(line) :
          /\ res.next[Len(res.next)] = P(LadderNext(T))
          /\ res.next[Len(res.next) - 1].t = "HOURGLASS"
          /\ IsDaysAfter(res.next[Len(res.next) - 1].d, BaseDate(line, now), LadderDays(T))
     /\ (line = <<P("-"), P("[x]"), P("Task"), P("#revise"), Dated("CHECK", <<2023, 1, 1>>)>>
           => res.next = <<P("-"), P("[ ]"), P("Task"),
                           Dated("HOURGLASS", <<2023, 1, 8>>), P("#revise_7")>>)

\* The example line was evaluated.
C4_Witness ==
  /\ Done("V2")
  /\ line = <<P("-"), P("[x]"), P("Task"), P("#revise"), Dated("CHECK", <<2023, 1, 1>>)>>
  /\ res.fired

\* A #revise_365 line was evaluated (the self-loop rung).
C4_Witness365 ==
  /\ Done("V2")
  /\ Eligible(line)
  /\ LongestStageTags(line) = {"#revise_365"}
  /\ res.fired

\* The last due-date token of a generated line.
LastDue(l) == l[Max({i \in 1..Len(l) : IsDue(l[i])})]
\* The last token of a line.
Last(l) == l[Len(l)]

\* The day offsets of the scheduling tags a line carries.
PlusDaysOf(l) ==
  {LadderDays(ToLower(l[i].t)) : i \in {j \in 1..Len(l) : IsStageTag(l[j])}}
    \cup {DigitsValue(l[i].d) : i \in {j \in 1..Len(l) : IsRepeatTag(l[j])}}

(***************************************************************************)
(* C5: longest tag wins.  For every line with more than one stage-tag      *)
(* occurrence the stage used is that of the longest tag present: the       *)
(* generated line ends with the next tag of a longest stage tag of the     *)
(* line.  Stated for the two processFile versions, V1 and V2.              *)
(***************************************************************************)
C5_LongestTagWins ==
  (phase = "done" /\ variant \in {"V1", "V2"} /\ res.fired /\ Count(line, IsStageTag) > 1) =>
     \E T \in LongestStageTags(line) : Last(res.next) = P(LadderNext(T))

\* C5 for V2 alone (getReviseTagFromLine), where it holds.
C5_LongestTagWinsV2 ==
  (Done("V2") /\ res.fired /\ Count(line, IsStageTag) > 1) =>
     \E T \in LongestStageTags(line) : Last(res.next) = P(LadderNext(T))

\* C5 for EV (findStageTag: the four tags of its ladder, case-sensitive), on
\* lines without a #repeat_N tag, which EV handles first.
IsStageTagEV(tok) == tok \in {P("#revise"), P("#revise_7"), P("#revise_30"), P("#revise_90")}
C5_LongestTagWinsEV ==
  (Done("EV") /\ res.fired /\ ~Has(line, IsRepeatTag) /\ Count(line, IsStageTagEV) > 1) =>
     LET tags == {line[i].t : i \in {j \in 1..Len(line) : IsStageTagEV(line[j])}}
     IN \E T \in {U \in tags : \A V \in tags : Len(V) <= Len(U)} :
          /\ Has(res.next, LAMBDA tok : tok = P(LadderNext(T)))
          /\ IsDaysAfter(LastDue(res.next).d, now, LadderDays(T))

(***************************************************************************)
(* C6: base-date precedence.  When the completed line carries a            *)
(* completion-date token the generated due date is that date plus the      *)
(* plusDays of a scheduling tag of the line, whatever `now` is; `now` is   *)
(* the base only when the line has no completion-date token.  Stated for   *)
(* V2 and EV.                                                              *)
(***************************************************************************)
C6_BaseDatePrecedence ==
  (phase = "done" /\ variant \in {"V2", "EV"} /\ res.fired) =>
     \E n \in PlusDaysOf(line) :
        IsDaysAfter(LastDue(res.next).d, BaseDate(line, now), n)

\* C6 for V2 alone (getCompletionBaseDateISO), where it holds.
C6_BaseDatePrecedenceV2 ==
  (Done("V2") /\ res.fired) =>
     \E T \in LongestStageTags(line) :
        IsDaysAfter(LastDue(res.next).d, BaseDate(line, now), LadderDays(T))

(***************************************************************************)
(* C8: stripping completeness.  For every line that triggers, the          *)
(* generated line holds no due, creation or completion token other than    *)
(* the one new due token, and no scheduling tag (stage tag or #repeat_N)   *)
(* other than the one next tag.  Stated for V2, VR and EV.                 *)
(***************************************************************************)
C8_StrippingComplete ==
  (phase = "done" /\ variant \in {"V2", "VR", "EV"} /\ res.fired) =>
     /\ Count(res.next, IsDue) = 1
     /\ Count(res.next, IsCreated) = 0
     /\ Count(res.next, IsDone) = 0
     /\ Count(res.next, IsSchedTag) = 1

\* C8 for VR alone.
C8_StrippingCompleteVR ==
  (Done("VR") /\ res.fired) =>
     /\ Count(res.next, IsDue) = 1
     /\ Count(res.next, IsCreated) = 0
     /\ Count(res.next, IsDone) = 0
     /\ Count(res.next, IsSchedTag) = 1

\* C8 for V2 alone, on lines without #repeat_N tags (which V2 does not know).
C8_StrippingCompleteV2 ==
  (Done("V2") /\ res.fired /\ ~Has(line, IsRepeatTag)) =>
     /\ Count(res.next, IsDue) = 1
     /\ Count(res.next, IsCreated) = 0
     /\ Count(res.next, IsDone) = 0
     /\ Count(res.next, IsSchedTag) = 1

(***************************************************************************)
(* C9: every generated line is a well-formed open task: it starts with an  *)
(* unchecked box, carries exactly one due-date token and exactly one       *)
(* scheduling tag, and that tag is the next tag of the resolved stage or   *)
(* the line's own #repeat_N.  Stated for V2 and EV.                        *)
(***************************************************************************)
WellFormedOpenTask(l, src) ==
  /\ Len(l) >= 2 /\ l[1] \in {P("-"), P("1.")} /\ l[2] = P("[ ]")
  /\ Count(l, IsDue) = 1
  /\ Count(l, IsSchedTag) = 1
  /\ LET tag == First(l, IsSchedTag)
     IN \/ \E T \in LongestStageTags(src) : tag = P(LadderNext(T))
        \/ \E i \in 1..Len(src) : IsRepeatTag(src[i]) /\ tag = src[i]

C9_WellFormedOpenTask ==
  (phase = "done" /\ variant \in {"V2", "EV"} /\ res.fired) =>
     WellFormedOpenTask(res.next, line)

\* C9 for V2 alone, on lines without #repeat_N tags.
C9_WellFormedOpenTaskV2 ==
  (Done("V2") /\ res.fired /\ ~Has(line, IsRepeatTag)) =>
     WellFormedOpenTask(res.next, line)

C1_SecondPassNoOp ==
  pass >= 2 => (~wrote /\ file = prev)

\* Two passes ran and the first one inserted a successor (V2).
C1_Witness ==
  /\ pass = 2
  /\ variant = "V2"
  /\ Len(prev) > Len(orig)
  /\ file = prev

(***************************************************************************)
(* The chain of one task (V2): the user completes the open task at the end  *)
(* of the document, the plugin runs processFile, and the successor it       *)
(* inserts is the task of the next cycle.                                   *)
(***************************************************************************)
StartLines ==
  { <<P("-"), P("[ ]"), P("Task"), P("#revise")>>,
    <<P("-"), P("[ ]"), P("Task"), P("#revise"), Dated("HOURGLASS", D1)>> }

\* How the user may tick the box: the mark typed and the completion date left.
Completions ==
  { <<"[x]", "none">>, <<"[x]", "today">>, <<"[x]", "yesterday">>, <<"[X]", "none">> }

InitChain ==
  /\ file \in {<<l>> : l \in StartLines}
  /\ now \in Nows
  /\ variant = "V2"
  /\ phase = "open"
  /\ pass = 0
  /\ orig = <<>>
  /\ prev = <<>>
  /\ wrote = FALSE
  /\ line = <<>>
  /\ res = NoRes
  /\ IdleHost

\* The user waits for the due date, ticks the box of the last task and may
\* leave a completion date on it.
Complete ==
  /\ phase = "open"
  /\ pass < MaxCycles
  /\ \E c \in Completions :
       LET mark == c[1]
           done == c[2]
           i == Len(file)
           l == file[i]
           today == IF Has(l, IsDue) /\ DaysFromCivil(LastDue(l).d) > DaysFromCivil(now)
                    THEN LastDue(l).d ELSE now
           ticked == [l EXCEPT ![2] = P(mark)]
           dated == CASE done = "none" -> ticked
                      [] done = "today" -> Append(ticked, Dated("CHECK", today))
                      [] done = "yesterday" ->
                           Append(ticked, Dated("CHECK", momentAddDays(today, -1)))
       IN /\ now' = today
          /\ file' = [file EXCEPT ![i] = dated]
  /\ phase' = "completed"
  /\ UNCHANGED <<variant, pass, orig, prev, wrote>>
  /\ UNCHANGED <<line, res>>
  /\ UNCHANGED hostVars

\* The plugin runs processFile on the document.
RunChain ==
  /\ phase = "completed"
  /\ \E r \in {processFile(variant, file, now)} :
       /\ file' = IF writeRequested(r, file) THEN r.out ELSE file
       /\ wrote' = writeRequested(r, file)
  /\ prev' = file
  /\ pass' = pass + 1
  /\ phase' = "open"
  /\ UNCHANGED <<now, variant, orig>>
  /\ UNCHANGED <<line, res>>
  /\ UNCHANGED hostVars

NextChain == Complete \/ RunChain

SpecChain ==
  InitChain /\ [][NextChain]_vars /\ WF_vars(Complete) /\ WF_vars(RunChain)

(***************************************************************************)
(* C7: self-loop progress (V2).  From a task tagged #revise, completing    *)
(* the generated task and running the engine again and again gives the tag *)
(* sequence #revise, #revise_7, #revise_30, #revise_90, #revise_365; every *)
(* cycle generates exactly one successor, an open task due plusDays after  *)
(* its base date; the chain reaches #revise_365 and stays there, each      *)
(* further successor due 365 days after its base.                          *)
(***************************************************************************)
LadderSeq == <<"#revise", "#revise_7", "#revise_30", "#revise_90", "#revise_365">>

StageOf(l) == ToLower(First(l, IsStageTag).t)

IsChecked(l) == Len(l) >= 2 /\ l[1] = P("-") /\ l[2] \in {P("[x]"), P("[X]")}
IsOpen(l) == Len(l) >= 2 /\ l[1] = P("-") /\ l[2] = P("[ ]")

ChainInv ==
  /\ Len(file) = pass + 1
  /\ \A i \in 1..Len(file) :
       /\ Count(file[i], IsStageTag) = 1
       /\ StageOf(file[i]) = LadderSeq[Min({i, 5})]
  /\ \A i \in 1..(Len(file) - 1) : IsChecked(file[i]) /\ Has(file[i], IsSentinel)
  /\ phase = "open" => IsOpen(Last(file)) /\ ~Has(Last(file), IsSentinel)
  /\ (phase = "open" /\ pass > 0) =>
       LET src == file[Len(file) - 1]
           nxt == Last(file)
       IN /\ StageOf(nxt) = LadderNext(StageOf(src))
          /\ Count(nxt, IsDue) = 1
          /\ IsDaysAfter(LastDue(nxt).d, BaseDate(src, now), LadderDays(StageOf(src)))

AtRevise365 == StageOf(Last(file)) = "#revise_365"

C7_SelfLoopProgress ==
  /\ []ChainInv
  /\ <>[]AtRevise365

\* The self-loop has been taken: a #revise_365 task was completed and its
\* successor, again #revise_365, is due 365 days after its base.
C7_Witness ==
  /\ phase = "open"
  /\ pass >= 5
  /\ StageOf(file[Len(file) - 1]) = "#revise_365"
  /\ AtRevise365
  /\ IsDaysAfter(LastDue(Last(file)).d, BaseDate(file[Len(file) - 1], now), 365)

(***************************************************************************)
(* The plugin (V2) in its host, on one document.  onload registers         *)
(* processFile behind a debounce on the vault's "modify" event, behind a   *)
(* fresh debounce for every "changed" event of the metadata cache, and     *)
(* directly under the two scan commands.  processFile awaits vault.read,   *)
(* computes, and awaits vault.modify: passes in flight interleave between  *)
(* their read and their write, and nothing in the code keeps a second pass *)
(* from starting while a first one is in flight.                           *)
(***************************************************************************)
HostDocs ==
  { << <<P("-"), P("[ ]"), P("A"), P("#revise")>> >>,
    << <<P("-"), P("[ ]"), P("A"), P("#revise")>>,
       <<P("-"), P("[x]"), P("B"), P("#revise_30")>> >> }

\* A write that adds the new text to the document instead of replacing it.
vaultModify_Append(current, newContent) == current \o newContent

\* vault.modify(file, newContent): the document becomes newContent.
vaultModify(current, newContent) == newContent

Init ==
  /\ file \in HostDocs
  /\ now \in Nows
  /\ variant = "V2"
  /\ phase = "host"
  /\ orig = <<>>
  /\ prev = <<>>
  /\ pass = 0
  /\ wrote = FALSE
  /\ line = <<>>
  /\ res = NoRes
  /\ IdleHost

\* The first half of processFile: vault.read and the loop.  A pass that has
\* something to write is then in flight with its new text.
startPass ==
  /\ BagCardinality(writing) < MaxProcs
  /\ \E r \in {processFile(variant, file, now)} :
       writing' = IF writeRequested(r, file)
                  THEN writing (+) SetToBag({r.out}) ELSE writing

\* The user ticks the box of an open task; under V2 the vault reports
\* "modify" and the shared debounce is armed (again); under the
\* event-driven versions the metadata cache will report "changed".
UserComplete ==
  /\ edits < MaxEdits
  /\ phase = "events" => Len(changedEvents) < MaxTimers
  /\ \E i \in 1..Len(file) :
       /\ TASK_OPEN_RE(file[i])
       /\ file' = [file EXCEPT ![i] = [@ EXCEPT ![2] = P("[x]")]]
  /\ edits' = edits + 1
  /\ modifyTimer' = IF phase = "host" THEN TRUE ELSE modifyTimer
  /\ changedEvents' = IF phase = "events" THEN Append(changedEvents, "user")
                      ELSE changedEvents
  /\ UNCHANGED <<now, variant, phase, changedTimers, writing>>
  /\ UNCHANGED <<orig, prev, pass, wrote, line, res>>
  /\ UNCHANGED <<lastCheckedState, isProgrammaticWrite, flagTimers>>
  /\ UNCHANGED passVars

\* The metadata cache reports "changed": the handler makes a new debounce
\* and calls it, so every event has a timer of its own.
MetadataChanged ==
  /\ phase = "host"
  /\ changedTimers < MaxTimers
  /\ changedTimers' = changedTimers + 1
  /\ UNCHANGED <<file, now, variant, phase, modifyTimer, writing, edits>>
  /\ UNCHANGED <<orig, prev, pass, wrote, line, res>>
  /\ UNCHANGED eventVars
  /\ UNCHANGED passVars

\* The debounce of the "modify" handler fires.
ModifyTimerFires ==
  /\ phase = "host"
  /\ modifyTimer
  /\ modifyTimer' = FALSE
  /\ startPass
  /\ UNCHANGED <<file, now, variant, phase, changedTimers, edits>>
  /\ UNCHANGED <<orig, prev, pass, wrote, line, res>>
  /\ UNCHANGED eventVars
  /\ UNCHANGED passVars

\* The debounce of one "changed" event fires.
ChangedTimerFires ==
  /\ phase = "host"
  /\ changedTimers > 0
  /\ changedTimers' = changedTimers - 1
  /\ startPass
  /\ UNCHANGED <<file, now, variant, phase, modifyTimer, edits>>
  /\ UNCHANGED <<orig, prev, pass, wrote, line, res>>
  /\ UNCHANGED eventVars
  /\ UNCHANGED passVars

\* One of the scan commands calls processFile on the document.
ScanCommand ==
  /\ phase = "host"
  /\ startPass
  /\ UNCHANGED <<file, now, variant, phase, modifyTimer, changedTimers, edits>>
  /\ UNCHANGED <<orig, prev, pass, wrote, line, res>>
  /\ UNCHANGED eventVars
  /\ UNCHANGED passVars

\* The second half of processFile: vault.modify with the text computed from
\* what the pass had read; the vault reports "modify".
PassWrites ==
  /\ phase = "host"
  /\ \E c \in BagToSet(writing) :
       /\ file' = vaultModify(file, c)
       /\ writing' = writing (-) SetToBag({c})
  /\ modifyTimer' = TRUE
  /\ UNCHANGED <<now, variant, phase, changedTimers, edits>>
  /\ UNCHANGED <<orig, prev, pass, wrote, line, res>>
  /\ UNCHANGED eventVars
  /\ UNCHANGED passVars

\* The vault reports "modify" for another document: the one debounce of the
\* "modify" handler is armed again, now with that document, and the pass it
\* was going to make on this document is cleared.
OtherDocumentModified ==
  /\ phase = "host"
  /\ modifyTimer
  /\ modifyTimer' = FALSE
  /\ UNCHANGED <<file, now, variant, phase, changedTimers, writing, edits>>
  /\ UNCHANGED <<orig, prev, pass, wrote, line, res>>
  /\ UNCHANGED eventVars
  /\ UNCHANGED passVars

\* Midnight passes, once.
Tick ==
  /\ now \in Nows
  /\ now' = momentAddDays(now, 1)
  /\ UNCHANGED <<file, variant, phase, modifyTimer, changedTimers, writing, edits>>
  /\ UNCHANGED <<orig, prev, pass, wrote, line, res>>
  /\ UNCHANGED eventVars
  /\ UNCHANGED passVars

Next ==
  \/ UserComplete
  \/ MetadataChanged
  \/ ModifyTimerFires
  \/ ChangedTimerFires
  \/ ScanCommand
  \/ PassWrites
  \/ OtherDocumentModified
  \/ Tick

Spec == Init /\ [][Next]_vars

(***************************************************************************)
(* The two event-driven versions in their host, on one document: EV        *)
(* (src/unnamed/part_000) and TS (src/main.ts).  onload registers a        *)
(* handler of the "changed" event of the metadata cache that compares the  *)
(* checkboxes of the cache with the snapshot kept for the document and     *)
(* calls handleCompletions on the lines newly checked; EV also takes a     *)
(* snapshot on "file-open".  handleCompletions awaits vault.read, loops,   *)
(* raises isProgrammaticWrite and awaits vault.modify.                     *)
(***************************************************************************)
\* buildCheckedMapFromCache: the lines of the list items whose box is
\* checked (an item that is absent or unchecked reads as false).
buildCheckedMapFromCache(content) ==
  {i \in 1..Len(content) : checkboxMatchEV(content[i])}

completionStep(v, l, today) ==
  IF v = "TS" THEN handleCompletionsLineTS(l, today) ELSE handleCompletionsLine(l, today)

\* A sort that puts the toggled lines top down.
sorted_Ascending(lines) ==
  CHOOSE q \in [1..Cardinality(lines) -> lines] :
    \A a, b \in 1..Cardinality(lines) : a < b => q[a] < q[b]

\* [...toggled].sort((a, b) => b.line - a.line)
sorted(lines) ==
  CHOOSE q \in [1..Cardinality(lines) -> lines] :
    \A a, b \in 1..Cardinality(lines) : a < b => q[a] > q[b]

\* lines.splice(ln + 1, 0, newTask) after lines[ln] = original, on the
\* array `lines` (ln counted from 1 here).
spliceAfter(lines, ln, original, newTask) ==
  SubSeq(lines, 1, ln - 1) \o <<original, newTask>> \o SubSeq(lines, ln + 1, Len(lines))

\* One iteration of the loop of handleCompletions, on toggled line ln.
completionIteration(v, st, ln, today) ==
  IF ln \notin 1..Len(st.out) THEN st
  ELSE LET r == completionStep(v, st.out[ln], today)
       IN IF r.fired
          THEN [out |-> spliceAfter(st.out, ln, r.marked, r.next), mutated |-> TRUE]
          ELSE st

\* The loop of handleCompletions: the toggled lines are sorted bottom up and
\* each successor is spliced into `lines` below its line.
handleCompletions(v, content, lines, today) ==
  LET q == sorted(lines)
      st[k \in 0..Len(q)] ==
        IF k = 0 THEN [out |-> content, mutated |-> FALSE]
        ELSE completionIteration(v, st[k - 1], q[k], today)
  IN st[Len(q)]

\* this.lastCheckedState.get(path), which the handler of TS replaces by an
\* empty map when there is none.
prevMapOf(v, snapshot) ==
  IF v = "TS" /\ ~snapshot.has THEN [has |-> TRUE, checked |-> {}] ELSE snapshot

\* A diff that takes every key whose state changed.
toggledToDone_AnyChange(currentMap, prevMap) ==
  (currentMap \ prevMap.checked) \cup (prevMap.checked \ currentMap)

\* toggledToDone: the keys checked now that were not checked (or not there)
\* in the snapshot.
toggledToDone(currentMap, prevMap) == currentMap \ prevMap.checked

\* A write whose timer is set only after vault.modify has succeeded.
timersAfterModify_OnSuccess(ok, timers) == IF ok THEN timers + 1 ELSE timers

\* try { await vault.modify(...) } finally { window.setTimeout(..., 50) }:
\* one more timer is pending, whether the write succeeded or not.
timersAfterModify(ok, timers) == timers + 1

InitEvents ==
  /\ file \in HostDocs
  /\ now \in Nows
  /\ variant \in {"EV", "TS"}
  /\ phase = "events"
  /\ orig = file
  /\ prev = <<>>
  /\ pass = 0
  /\ wrote = FALSE
  /\ line = <<>>
  /\ res = NoRes
  /\ IdleHost

\* The user clears the box of a checked task.
UserUncheck ==
  /\ phase = "events"
  /\ edits < MaxEdits
  /\ Len(changedEvents) < MaxTimers
  /\ \E i \in 1..Len(file) :
       /\ TASK_DONE_RE(file[i])
       /\ file' = [file EXCEPT ![i] = [@ EXCEPT ![2] = P("[ ]")]]
  /\ edits' = edits + 1
  /\ changedEvents' = Append(changedEvents, "user")
  /\ UNCHANGED <<now, variant, phase, modifyTimer, changedTimers, writing>>
  /\ UNCHANGED <<orig, prev, pass, wrote, line, res>>
  /\ UNCHANGED <<lastCheckedState, isProgrammaticWrite, flagTimers>>
  /\ UNCHANGED passVars

\* The metadata cache indexes the document (again) and will report
\* "changed", the text being what it was.
CacheChanged ==
  /\ phase = "events"
  /\ Len(changedEvents) < MaxTimers
  /\ changedEvents' = Append(changedEvents, "cache")
  /\ UNCHANGED <<file, now, variant, phase, modifyTimer, changedTimers, writing, edits>>
  /\ UNCHANGED <<orig, prev, pass, wrote, line, res>>
  /\ UNCHANGED <<lastCheckedState, isProgrammaticWrite, flagTimers>>
  /\ UNCHANGED passVars

\* workspace.on("file-open") of EV: the snapshot is taken, nothing else.
FileOpen ==
  /\ phase = "events"
  /\ variant = "EV"
  /\ lastCheckedState' = [has |-> TRUE, checked |-> buildCheckedMapFromCache(file)]
  /\ UNCHANGED <<file, now, variant, phase, modifyTimer, changedTimers, writing, edits>>
  /\ UNCHANGED <<isProgrammaticWrite, changedEvents, flagTimers>>
  /\ UNCHANGED <<orig, prev, pass, wrote, line, res>>
  /\ UNCHANGED passVars

\* metadataCache.on("changed") is delivered.  With isProgrammaticWrite up
\* the handler returns at once.  Otherwise it takes the snapshot and, when
\* keys were newly checked, calls handleCompletions, whose first half
\* (vault.read and the loop) is part of this step.  `pass` counts the calls
\* of handleCompletions, at most MaxPasses, and `toggled` is the lines the
\* latest call was given.
ChangedEvent ==
  /\ phase = "events"
  /\ changedEvents # <<>>
  /\ changedEvents' = Tail(changedEvents)
  /\ IF isProgrammaticWrite
     THEN UNCHANGED <<lastCheckedState, writing, pass, toggled>>
     ELSE \E currentMap \in {buildCheckedMapFromCache(file)} :
          \E prevMap \in {prevMapOf(variant, lastCheckedState)} :
            /\ lastCheckedState' = [has |-> TRUE, checked |-> currentMap]
            /\ IF ~prevMap.has \/ toggledToDone(currentMap, prevMap) = {}
               THEN UNCHANGED <<writing, pass, toggled>>
               ELSE /\ pass < MaxPasses
                    /\ pass' = pass + 1
                    /\ BagCardinality(writing) < MaxProcs
                    /\ toggled' = toggledToDone(currentMap, prevMap)
                    /\ \E r \in {handleCompletions(variant, file,
                                   toggledToDone(currentMap, prevMap), now)} :
                         writing' = IF r.mutated
                                    THEN writing (+) SetToBag({r.out}) ELSE writing
  /\ UNCHANGED <<file, now, variant, phase, modifyTimer, changedTimers, edits>>
  /\ UNCHANGED <<isProgrammaticWrite, flagTimers>>
  /\ UNCHANGED <<orig, prev, wrote, line, res>>
  /\ UNCHANGED <<trigger, readContent, cursor, outLines, mutated, writes, notices, failure>>

\* The second half of handleCompletions: the flag is raised, vault.modify
\* is awaited and replaces the text or fails, and in either case a timer is
\* set to lower the flag.  `writes` counts the calls of vault.modify.
CompletionsWrite ==
  /\ phase = "events"
  /\ \E c \in BagToSet(writing) :
     \E ok \in BOOLEAN :
       /\ ok => Len(changedEvents) < MaxTimers
       /\ file' = IF ok THEN vaultModify(file, c) ELSE file
       /\ changedEvents' = IF ok THEN Append(changedEvents, "write") ELSE changedEvents
       /\ flagTimers' = timersAfterModify(ok, flagTimers)
       /\ writing' = writing (-) SetToBag({c})
  /\ isProgrammaticWrite' = TRUE
  /\ writes' = writes + 1
  /\ UNCHANGED <<now, variant, phase, modifyTimer, changedTimers, edits>>
  /\ UNCHANGED lastCheckedState
  /\ UNCHANGED <<orig, prev, pass, wrote, line, res>>
  /\ UNCHANGED <<trigger, readContent, toggled, cursor, outLines, mutated, notices, failure>>

\* window.setTimeout(() => (this.isProgrammaticWrite = false), 50) fires.
FlagTimerFires ==
  /\ phase = "events"
  /\ flagTimers > 0
  /\ flagTimers' = flagTimers - 1
  /\ isProgrammaticWrite' = FALSE
  /\ UNCHANGED <<file, now, variant, phase, modifyTimer, changedTimers, writing, edits>>
  /\ UNCHANGED <<lastCheckedState, changedEvents>>
  /\ UNCHANGED <<orig, prev, pass, wrote, line, res>>
  /\ UNCHANGED passVars

NextEvents ==
  \/ UserComplete
  \/ UserUncheck
  \/ CacheChanged
  \/ FileOpen
  \/ ChangedEvent
  \/ CompletionsWrite
  \/ FlagTimerFires

SpecEvents == InitEvents /\ [][NextEvents]_vars

\* Timers fire and writes come back.
SpecEventsFair ==
  SpecEvents /\ WF_vars(FlagTimerFires) /\ WF_vars(CompletionsWrite)

(***************************************************************************)
(* One pass at a time, followed statement by statement, with a vault whose *)
(* read and whose write can fail: processFile of V2 under its three        *)
(* callers (the debounced handler and the two scan commands) and           *)
(* handleCompletions of EV under the "changed" handler.  phase is the      *)
(* position of the pass: "idle" before the call, "loop" after vault.read,  *)
(* "write" at vault.modify, "done" after the caller has returned or        *)
(* thrown.  The user can edit the document while the pass is under way.    *)
(***************************************************************************)
Triggers(v) ==
  IF v = "V2" THEN {"debounced", "scan-active", "scan-all"} ELSE {"changed"}

\* The debounced handler wraps processFile in try/catch and logs the error.
debouncedFailure(at) == [at |-> at, caught |-> TRUE, logged |-> TRUE]

\* The scan commands await processFile without try/catch: the rejection
\* leaves the callback, and the Notice after the await is not reached.
scanFailure(at) == [at |-> at, caught |-> FALSE, logged |-> FALSE]

\* handleCompletions(file, toggledToDone).catch(console.error)
completionsFailure(at) == [at |-> at, caught |-> TRUE, logged |-> TRUE]

failureOf(t, at) ==
  CASE t = "debounced" -> debouncedFailure(at)
    [] t = "changed" -> completionsFailure(at)
    [] OTHER -> scanFailure(at)

\* The Notice a caller shows after its await has returned.
noticeAfter(t) ==
  CASE t = "scan-active" -> <<"Revise Scheduler: scanned active file">>
    [] t = "scan-all" -> <<"Revise Scheduler: scanned all markdown files">>
    [] OTHER -> <<>>

\* How many iterations the loop of the pass makes.
loopLength ==
  IF variant \in {"EV", "TS"} THEN Cardinality(toggled) ELSE Len(readContent)

\* A pass that writes whatever its loop has produced.
modifyRequested_Always == TRUE

\* EV: if (modified); V2: if (mutated) { if (newContent !== content) ... }
modifyRequested ==
  IF variant \in {"EV", "TS"} THEN mutated
  ELSE writeRequested([out |-> outLines, mutated |-> mutated], readContent)

InitPass ==
  /\ file \in HostDocs
  /\ now \in Nows
  /\ variant \in {"V2", "EV", "TS"}
  /\ phase = "idle"
  /\ orig = <<>>
  /\ prev = <<>>
  /\ pass = 0
  /\ wrote = FALSE
  /\ line = <<>>
  /\ res = NoRes
  /\ IdleHost

\* A caller calls the pass, which awaits vault.read: it gets the text, or
\* the read fails and the pass is over.  Under EV the handler has found
\* lines newly checked, any of the checked ones.
ReadDocument ==
  /\ phase = "idle"
  /\ pass < MaxPasses
  /\ pass' = pass + 1
  /\ \E t \in Triggers(variant) :
     \E lines \in (IF variant \in {"EV", "TS"}
                   THEN SUBSET buildCheckedMapFromCache(file) \ {{}} ELSE {{}}) :
       /\ trigger' = t
       /\ toggled' = lines
       /\ \/ /\ readContent' = file
             /\ outLines' = IF variant \in {"EV", "TS"} THEN file ELSE <<>>
             /\ failure' = NoFailure
             /\ phase' = "loop"
          \/ /\ readContent' = <<>>
             /\ outLines' = <<>>
             /\ failure' = failureOf(t, "read")
             /\ phase' = "done"
  /\ cursor' = 0
  /\ mutated' = FALSE
  /\ writes' = 0
  /\ notices' = <<>>
  /\ UNCHANGED <<file, now, variant, modifyTimer, changedTimers, writing, edits>>
  /\ UNCHANGED <<orig, prev, wrote, line, res>>
  /\ UNCHANGED eventVars

\* One iteration of the loop.  processFile pushes the line it is at, and
\* the successor and the mark if the line fires; handleCompletions takes
\* the toggled lines bottom up and splices into `lines`.
LoopIteration ==
  /\ phase = "loop"
  /\ cursor < loopLength
  /\ cursor' = cursor + 1
  /\ IF variant \in {"EV", "TS"}
     THEN \E st \in {completionIteration(variant,
                                         [out |-> outLines, mutated |-> mutated],
                                         sorted(toggled)[cursor + 1], now)} :
            /\ outLines' = st.out
            /\ mutated' = st.mutated
     ELSE \E r \in {lineStep(variant, readContent[cursor + 1], now)} :
            /\ outLines' = outLines \o (IF r.fired THEN <<r.marked, r.next>>
                                        ELSE <<readContent[cursor + 1]>>)
            /\ mutated' = (mutated \/ r.fired)
  /\ UNCHANGED <<trigger, readContent, toggled, writes, notices, failure>>
  /\ UNCHANGED <<file, now, variant, phase, modifyTimer, changedTimers, writing, edits>>
  /\ UNCHANGED <<orig, prev, pass, wrote, line, res>>
  /\ UNCHANGED eventVars

\* The loop is over: the pass goes on to vault.modify, or it returns and
\* its caller shows the Notice that follows its await.
LoopEnds ==
  /\ phase = "loop"
  /\ cursor = loopLength
  /\ IF modifyRequested
     THEN phase' = "write" /\ notices' = notices
     ELSE phase' = "done" /\ notices' = notices \o noticeAfter(trigger)
  /\ UNCHANGED <<trigger, readContent, toggled, cursor, outLines, mutated, writes, failure>>
  /\ UNCHANGED <<file, now, variant, modifyTimer, changedTimers, writing, edits>>
  /\ UNCHANGED <<orig, prev, pass, wrote, line, res>>
  /\ UNCHANGED eventVars

\* await vault.modify(file, newContent): the document becomes the new
\* text and the Notices that follow are shown, or the write fails and the
\* document is as it was.
ModifyDocument ==
  /\ phase = "write"
  /\ writes' = writes + 1
  /\ \/ /\ file' = vaultModify(file, outLines)
        /\ notices' = notices
                      \o (IF variant \in {"EV", "TS"}
                          THEN <<"Created spaced follow-up task(s)">> ELSE <<>>)
                      \o noticeAfter(trigger)
        /\ failure' = failure
     \/ /\ file' = file
        /\ notices' = notices
        /\ failure' = failureOf(trigger, "modify")
  /\ phase' = "done"
  /\ UNCHANGED <<trigger, readContent, toggled, cursor, outLines, mutated>>
  /\ UNCHANGED <<now, variant, modifyTimer, changedTimers, writing, edits>>
  /\ UNCHANGED <<orig, prev, pass, wrote, line, res>>
  /\ UNCHANGED eventVars

\* The host is ready for the next trigger.
CallerReturns ==
  /\ phase = "done"
  /\ phase' = "idle"
  /\ UNCHANGED passVars
  /\ UNCHANGED <<file, now, variant, modifyTimer, changedTimers, writing, edits>>
  /\ UNCHANGED <<orig, prev, pass, wrote, line, res>>
  /\ UNCHANGED eventVars

NextPass ==
  \/ UserComplete
  \/ ReadDocument
  \/ LoopIteration
  \/ LoopEnds
  \/ ModifyDocument
  \/ CallerReturns

SpecPass == InitPass /\ [][NextPass]_vars

(***************************************************************************)
(* C2: duplicate-proof scheduling under interleaving (V2).                 *)
(* Whatever the interleaving of "modify" events, "changed" events and scan *)
(* commands with the user's edits, every completed line with a stage tag   *)
(* has at most one successor in the document, and no task has two open     *)
(* copies: two passes that read the same text write the same text.         *)
(* A successor of a completed line is a line with the same task word and   *)
(* the next tag of the ladder; below #revise_365 the tags of a chain are   *)
(* all different, so the tag identifies the successor.                     *)
(***************************************************************************)
TaskWords == {"A", "B"}
HasWord(l, w) == \E i \in 1..Len(l) : l[i] = P(w)
LinesOf(w) == {i \in 1..Len(file) : HasWord(file[i], w)}

Successors(i) ==
  {j \in 1..Len(file) :
     /\ \E w \in TaskWords : HasWord(file[i], w) /\ HasWord(file[j], w)
     /\ Has(file[j], IsStageTag)
     /\ StageOf(file[j]) = LadderNext(StageOf(file[i]))}

C2_AtMostOneSuccessor ==
  phase = "host" =>
    /\ \A i \in 1..Len(file) :
         (IsChecked(file[i]) /\ Has(file[i], IsStageTag)
            /\ StageOf(file[i]) \in {"#revise", "#revise_7", "#revise_30"})
           => Cardinality(Successors(i)) <= 1
    /\ \A w \in TaskWords :
         Cardinality({i \in LinesOf(w) : IsOpen(file[i])}) <= 1

\* Two triggers raced: the successor is in the document, written by one
\* pass, and another pass that had read the text before that write is about
\* to write too.
C2_Witness ==
  /\ phase = "host"
  /\ \E i \in 1..Len(file) : Has(file[i], IsSentinel) /\ Successors(i) # {}
  /\ \E c \in BagToSet(writing) : c = file

(***************************************************************************)
(* The test script of src/verify_repeat.js: processLine is run on the      *)
(* three lines of `tests`, in order, and each input and output is logged.  *)
(* moment() is the day the script is run on.                               *)
(***************************************************************************)
tests ==
  << <<P("-"), P("[x]"), P("Task"), P("1"), Rep(<<3>>), Dated("CHECK", <<2023, 1, 1>>)>>,
     <<P("-"), P("[x]"), P("Task"), P("2"), Rep(<<7>>)>>,
     <<P("-"), P("[x]"), P("Task"), P("3"), P("#revise"), Dated("CHECK", <<2023, 1, 1>>)>> >>

RunDays == {momentAddDays(<<2023, 1, 1>>, k) : k \in 0..MaxRunDay}

InitTests ==
  /\ now \in RunDays
  /\ variant = "VR"
  /\ phase = "tests"
  /\ pass = 0
  /\ file = <<>>
  /\ line = <<>>
  /\ res = NoRes
  /\ orig = <<>>
  /\ prev = <<>>
  /\ wrote = FALSE
  /\ IdleHost

\* One round of tests.forEach: the input and the output are logged.
RunTest ==
  /\ phase = "tests"
  /\ pass < Len(tests)
  /\ \E r \in {processLine(tests[pass + 1], now)} :
       /\ res' = r
       /\ file' = file \o <<tests[pass + 1], IF r.fired THEN r.next ELSE <<P("null")>> >>
  /\ line' = tests[pass + 1]
  /\ pass' = pass + 1
  /\ UNCHANGED <<now, phase, variant, orig, prev, wrote>>
  /\ UNCHANGED hostVars

NextTests == RunTest

SpecTests == InitTests /\ [][NextTests]_vars

(***************************************************************************)
(* C11 as claimed: for the input line "- [x] Task 1 #repeat_3" with        *)
(* completion date 2023-01-01 the generated line is an open task with due  *)
(* date 2023-01-08 and tag #repeat_3, the old #repeat_3 tag and the        *)
(* completion-date token removed from the copied body.                     *)
(***************************************************************************)
C11_RepeatScenarioAsClaimed ==
  (phase = "tests" /\ pass >= 1) =>
     file[2] = <<P("-"), P("[ ]"), P("Task"), P("1"),
                 Dated("HOURGLASS", <<2023, 1, 8>>), Rep(<<3>>)>>

(***************************************************************************)
(* C11 as amended: for that input line the generated line is an open task  *)
(* with due date 2023-01-04 (the completion date plus 3 days, whatever the *)
(* day the script runs on) and tag #repeat_3, the old #repeat_3 tag and    *)
(* the completion-date token removed from the copied body.                 *)
(***************************************************************************)
C11_RepeatScenario ==
  (phase = "tests" /\ pass >= 1) =>
     /\ file[1] = <<P("-"), P("[x]"), P("Task"), P("1"), Rep(<<3>>),
                    Dated("CHECK", <<2023, 1, 1>>)>>
     /\ file[2] = <<P("-"), P("[ ]"), P("Task"), P("1"),
                    Dated("HOURGLASS", <<2023, 1, 4>>), Rep(<<3>>)>>

\* The first test has run, on a day other than the completion date.
C11_Witness ==
  /\ phase = "tests"
  /\ pass = 1
  /\ now # <<2023, 1, 1>>
  /\ res.fired
  /\ Len(file) = 2

(***************************************************************************)
(* C12: stage-tag priority.  For every eligible line that carries both a   *)
(* valid stage tag and a valid #repeat_N tag, the successor is scheduled   *)
(* from the stage tag: it carries the next tag of the resolved stage and   *)
(* is due that stage's plusDays after the base; the repeat tag influences  *)
(* neither.  Stated for VR and EV, on the stage tags that have a successor *)
(* in both ladders, and with either base (completion date or now).         *)
(***************************************************************************)
HasSuccessorInBothLadders(tok) == tok \in {P("#revise"), P("#revise_7"), P("#revise_30")}

StageAndRepeat(l) ==
  /\ Eligible(l)
  /\ Has(l, IsStageTag)
  /\ \A i \in 1..Len(l) : IsStageTag(l[i]) => HasSuccessorInBothLadders(l[i])
  /\ Has(l, IsRepeatTag)

C12_StageTagPriority ==
  (phase = "done" /\ variant \in {"VR", "EV"} /\ StageAndRepeat(line)) =>
     /\ res.fired
     /\ \E T \in LongestStageTags(line) :
          /\ Has(res.next, LAMBDA tok : tok = P(LadderNext(T)))
          /\ \/ IsDaysAfter(LastDue(res.next).d, BaseDate(line, now), LadderDays(T))
             \/ IsDaysAfter(LastDue(res.next).d, now, LadderDays(T))

\* C12 for VR alone (processLine tests the stage tag first), on every stage
\* tag of its ladder.
C12_StageTagPriorityVR ==
  (Done("VR") /\ Eligible(line) /\ Has(line, IsStageTag) /\ Has(line, IsRepeatShaped)) =>
     /\ res.fired
     /\ \E T \in LongestStageTags(line) :
          /\ Last(res.next) = P(LadderNext(T))
          /\ IsDaysAfter(LastDue(res.next).d, BaseDate(line, now), LadderDays(T))

(***************************************************************************)
(* C13: sentinel placement.  When the original line ends with a            *)
(* block-reference suffix ^id, marking the line inserts #nextscheduled     *)
(* immediately before that suffix, so that ^id is still the last token of  *)
(* the amended original line; without such a suffix the sentinel is        *)
(* appended at the end of the line.  Stated for V2 and EV.                 *)
(***************************************************************************)
IsBlockId(tok) == tok = P("^id")
EndsWithBlockId(l) == Len(l) >= 2 /\ IsBlockId(Last(l))

SentinelPlaced(l, marked) ==
  IF EndsWithBlockId(l)
  THEN /\ marked = SubSeq(l, 1, Len(l) - 1) \o <<P("#nextscheduled"), P("^id")>>
       /\ IsBlockId(Last(marked))
  ELSE marked = Append(l, P("#nextscheduled"))

C13_SentinelPlacement ==
  (phase = "done" /\ variant \in {"V2", "EV"} /\ res.fired) =>
     SentinelPlaced(line, res.marked)

\* C13 for EV alone (appendTagPreservingBlockId), where it holds.
C13_SentinelPlacementEV ==
  (Done("EV") /\ res.fired) => SentinelPlaced(line, res.marked)

(***************************************************************************)
(* C14: a trailing block-reference suffix ^id of the original line is      *)
(* never copied onto the generated successor line: for every triggering    *)
(* line ending in ^id, the generated line contains no ^id token.  Stated   *)
(* for V2 and EV.                                                          *)
(***************************************************************************)
C14_BlockIdNotCopied ==
  (phase = "done" /\ variant \in {"V2", "EV"} /\ res.fired /\ EndsWithBlockId(line)) =>
     ~Has(res.next, IsBlockId)

\* Neither engine ever drops the suffix: the copy always carries it.
C14_BlockIdAlwaysCopiedV2 ==
  (Done("V2") /\ res.fired /\ EndsWithBlockId(line)) => Has(res.next, IsBlockId)
C14_BlockIdAlwaysCopiedEV ==
  (Done("EV") /\ res.fired /\ EndsWithBlockId(line)) => Has(res.next, IsBlockId)

(***************************************************************************)
(* C15: single-flight guard.  At every instant at most one document-       *)
(* processing operation is in flight for the document: a trigger that      *)
(* arrives while a pass is in flight is dropped without reading.  Stated   *)
(* for the host of V2, where a pass is in flight between its vault.read    *)
(* and its vault.modify.                                                   *)
(***************************************************************************)
InFlight == BagCardinality(writing)

C15_SingleFlight ==
  phase = "host" => InFlight <= 1

\* What the code does instead: a trigger that arrives while a pass is in
\* flight is not dropped; it reads the document and, the text read being
\* unprocessed, becomes a second pass in flight.
C15_TriggersNeverDropped ==
  (phase = "host" /\ InFlight >= 1 /\ InFlight < MaxProcs
     /\ writeRequested(processFile(variant, file, now), file))
    => ENABLED (ScanCommand /\ BagCardinality(writing') = InFlight + 1)

(***************************************************************************)
(* C16: eligibility gate.  The engine produces a result only for a line    *)
(* that is a checked checkbox item, in either list style ("- [x] ..." or   *)
(* "N. [x] ...", x in either case); an unchecked item yields no result     *)
(* whatever its tags, and a checked numbered-list item with a valid        *)
(* scheduling tag and no sentinel does yield a result.  Stated for V2 and  *)
(* EV, the tag being one that has a successor in both ladders.             *)
(***************************************************************************)
IsCheckedItem(l) ==
  /\ Len(l) >= 2
  /\ l[1] \in {P("-"), P("1.")}
  /\ l[2] \in {P("[x]"), P("[X]")}

IsNumberedCheckedWithTag(l) ==
  /\ Len(l) >= 3
  /\ l[1] = P("1.")
  /\ l[2] \in {P("[x]"), P("[X]")}
  /\ Has(l, HasSuccessorInBothLadders)
  /\ \A i \in 1..Len(l) : IsStageTag(l[i]) => HasSuccessorInBothLadders(l[i])
  /\ ~Has(l, IsSentinel)

EligibilityGate(l, r) ==
  /\ r.fired => IsCheckedItem(l)
  /\ ~IsCheckedItem(l) => (~r.fired /\ r.marked = l /\ r.next = <<>>)
  /\ IsNumberedCheckedWithTag(l) => r.fired

C16_EligibilityGate ==
  (phase = "done" /\ variant \in {"V2", "EV"}) => EligibilityGate(line, res)

\* C16 for EV alone (its checkbox expression accepts "-" and "N."), where it
\* holds.
C16_EligibilityGateEV ==
  Done("EV") => EligibilityGate(line, res)

\* V2 never yields a result for a numbered-list item.
C16_NumberedNeverFiresV2 ==
  (Done("V2") /\ line[1] = P("1.")) => ~res.fired

(***************************************************************************)
(* C17: invalid repeat count.  A line whose only scheduling-tag-shaped     *)
(* token is #repeat_N with N = 0 or N not a positive integer yields no     *)
(* result: the line is not marked with the sentinel and no successor is    *)
(* inserted.  Stated for VR and EV.                                        *)
(***************************************************************************)
IsZeroRepeat(tok) == tok.t = "#repeat_" /\ tok.d # <<>> /\ DigitsValue(tok.d) = 0
IsNonIntegerRepeat(tok) ==
  tok \in {P("#repeat_"), P("#repeat_x"), P("#repeat_-1"), P("#repeat_1.5"), P("#repeat_3x")}
IsInvalidRepeat(tok) == IsZeroRepeat(tok) \/ IsNonIntegerRepeat(tok)

OnlyInvalidRepeat(l) ==
  /\ IsCheckedItem(l)
  /\ Has(l, IsInvalidRepeat)
  /\ ~Has(l, IsSchedTag)

YieldsNothing(l, r) == ~r.fired /\ r.marked = l /\ r.next = <<>>

C17_InvalidRepeatCount ==
  (phase = "done" /\ variant \in {"VR", "EV"} /\ OnlyInvalidRepeat(line)) =>
     YieldsNothing(line, res)

\* What does hold: a count of zero, or a tag with no digit right after
\* "#repeat_", yields nothing in both engines.
IsUnreadableRepeat(tok) ==
  IsZeroRepeat(tok) \/ tok \in {P("#repeat_"), P("#repeat_x"), P("#repeat_-1")}
C17_ZeroOrNoDigits ==
  (phase = "done" /\ variant \in {"VR", "EV"} /\ IsCheckedItem(line)
     /\ Has(line, IsUnreadableRepeat)
     /\ \A i \in 1..Len(line) : IsInvalidRepeat(line[i]) => IsUnreadableRepeat(line[i])
     /\ ~Has(line, IsSchedTag)) =>
     YieldsNothing(line, res)


(***************************************************************************)
(* C18.  Baseline on first sighting.                                       *)
(***************************************************************************)
\* The step is the first notification for the document: there was no
\* snapshot and the step stores one.
FirstSighting == phase = "events" /\ ~lastCheckedState.has /\ lastCheckedState'.has

\* The step starts no pass and leaves the document as it is.
NoRewriting == writing' = writing /\ file' = file

\* C18: the first "changed" notification (or file-open) for a document with
\* no stored snapshot only stores the snapshot: it starts no rewriting, so
\* items already checked generate no successor on that notification.
C18_BaselineOnFirstSighting == [][FirstSighting => NoRewriting]_vars

\* The handlers of part_000 do establish the baseline and nothing more.
C18_BaselineOnFirstSightingEV ==
  [][(FirstSighting /\ variant = "EV") => NoRewriting]_vars

\* The handler of main.ts starts a pass on every first sighting of a
\* document that holds a checked item with a successor in the ladder.
C18_FirstSightingRewritesTS ==
  [][(FirstSighting /\ variant = "TS" /\ pass < MaxPasses
        /\ BagCardinality(writing) < MaxProcs
        /\ handleCompletions("TS", file, buildCheckedMapFromCache(file), now).mutated)
       => writing' # writing]_vars

(***************************************************************************)
(* C19.  Write discipline of a pass.                                       *)
(***************************************************************************)
\* The pass has called vault.modify, or is about to.
AtOrPastModify == phase = "write" \/ writes > 0

\* The step ends the pass with a failure.
PassFails == phase # "done" /\ phase' = "done" /\ failure' # NoFailure

\* The step is vault.modify succeeding with the text of a finished loop.
PassWritesOnce ==
  /\ phase = "write"
  /\ writes' = 1
  /\ failure' = NoFailure
  /\ file' = outLines

\* C19: a pass issues at most one write, only after every line has been
\* evaluated in memory, and only if a line produced a result and the joined
\* output differs from the text read; if no line produced a result, or the
\* pass failed before completing, no write is issued and the document is
\* unmodified (the document changes by a user's edit or by that one write).
C19_WriteDiscipline ==
  /\ [](phase \in {"idle", "loop", "write", "done"} =>
          /\ writes <= 1
          /\ AtOrPastModify =>
               (cursor = loopLength /\ mutated /\ outLines # readContent)
          /\ (phase = "done" /\ (~mutated \/ failure.at = "read")) => writes = 0
          /\ (phase = "done" /\ mutated /\ outLines # readContent) => writes = 1)
  /\ [][PassFails => file' = file]_vars
  /\ [][file' # file => (edits' = edits + 1 \/ PassWritesOnce)]_vars

\* A pass over two lines or more has written its text, once.
C19_Witness ==
  /\ phase = "done"
  /\ writes = 1
  /\ failure = NoFailure
  /\ Len(readContent) >= 2
  /\ cursor = loopLength
  /\ file = outLines
  /\ file # readContent

\* A pass in which no line fired has ended without a write.
C19_WitnessNoResult ==
  /\ phase = "done"
  /\ trigger # "none"
  /\ failure = NoFailure
  /\ ~mutated
  /\ writes = 0

\* A pass whose write failed has ended.
C19_WitnessFailure ==
  /\ phase = "done"
  /\ failure.at = "modify"
  /\ file # outLines

(***************************************************************************)
(* C20.  I/O failure handling on the three trigger paths.                  *)
(***************************************************************************)
\* A pass of processFile has ended with a failed read or write.
FailedPass == phase = "done" /\ variant = "V2" /\ failure # NoFailure

\* The Notices of the pass that are not the ones shown after a success.
failureNotices ==
  SelectSeq(notices, LAMBDA n : n \notin {"Revise Scheduler: scanned active file",
                                          "Revise Scheduler: scanned all markdown files",
                                          "Created spaced follow-up task(s)"})

\* C20: when reading or writing fails, on every trigger path (debounced
\* change event, scan-current command, scan-all command) the failure is
\* caught, does not propagate to the host, and results in exactly one
\* failure notification to the user.
C20_FailureHandling ==
  FailedPass => (failure.caught /\ Len(failureNotices) = 1)

\* On the debounced path the failure is caught and logged.
C20_DebouncedCaught ==
  (FailedPass /\ trigger = "debounced") => (failure.caught /\ failure.logged)

\* On the two scan paths the failure is not caught, and on no path is the
\* user shown anything.
C20_NoNotification ==
  FailedPass => /\ notices = <<>>
                /\ trigger \in {"scan-active", "scan-all"} => ~failure.caught

(***************************************************************************)
(* C21.  Insertion and frame of the full-document pass (V1 and V2).        *)
(***************************************************************************)
\* The lines of the text the latest pass read on which the engine fires.
Triggering == {i \in 1..Len(prev) : lineStep(variant, prev[i], now).fired}

\* Where line i of the input is in an output that keeps the order and has
\* one more line after every triggering line.
PlaceOf(i) == i + Cardinality({j \in Triggering : j < i})

\* C21: the output of the pass is the input line sequence in the same
\* order, every line that does not trigger unchanged, every line that
\* triggers replaced by its amended form immediately followed by its
\* successor, and nothing else added: output length = input length + number
\* of triggering lines.
C21_InsertionFrame ==
  (phase = "doc" /\ pass >= 1) =>
    /\ Len(file) = Len(prev) + Cardinality(Triggering)
    /\ \A i \in 1..Len(prev) :
         LET r == lineStep(variant, prev[i], now)
         IN IF r.fired
            THEN /\ file[PlaceOf(i)] = r.marked
                 /\ r.marked # prev[i]
                 /\ file[PlaceOf(i) + 1] = r.next
            ELSE file[PlaceOf(i)] = prev[i]

\* A pass has run on a text in which a line that triggers stands between
\* two lines that do not.
C21_Witness ==
  /\ phase = "doc"
  /\ pass = 1
  /\ Len(prev) = 3
  /\ Triggering = {2}
  /\ Len(file) = 4

(***************************************************************************)
(* C22.  Restricted rewriting with several flipped lines (EV and TS).      *)
(***************************************************************************)
\* The toggled lines of the text read on which the engine fires.
ToggledFiring ==
  {i \in toggled : /\ i \in 1..Len(readContent)
                   /\ completionStep(variant, readContent[i], now).fired}

\* Where line i of the text read is once a line has been inserted below
\* every toggled line that fires.
PlaceAfterInsertions(i) == i + Cardinality({j \in ToggledFiring : j < i})

\* The loop of a call of handleCompletions is over.
CompletionsLoopOver ==
  /\ variant \in {"EV", "TS"}
  /\ phase \in {"write", "done"}
  /\ failure.at # "read"

\* C22: when handleCompletions receives a set of toggled line numbers, each
\* generated successor ends up immediately after its own source line in the
\* final text, and inserting one successor never makes another toggled line
\* number refer to a line other than the one that flipped: every toggled
\* line is evaluated as it was read, and every other line is kept.
C22_RestrictedRewriting ==
  CompletionsLoopOver =>
    /\ Len(outLines) = Len(readContent) + Cardinality(ToggledFiring)
    /\ \A i \in 1..Len(readContent) :
         LET r == completionStep(variant, readContent[i], now)
         IN IF i \in ToggledFiring
            THEN /\ outLines[PlaceAfterInsertions(i)] = r.marked
                 /\ outLines[PlaceAfterInsertions(i) + 1] = r.next
            ELSE outLines[PlaceAfterInsertions(i)] = readContent[i]

\* A call with two toggled lines that both fire has written its text.
C22_Witness ==
  /\ CompletionsLoopOver
  /\ phase = "done"
  /\ writes = 1
  /\ failure = NoFailure
  /\ Cardinality(ToggledFiring) = 2
  /\ file = outLines

(***************************************************************************)
(* C23.  Flip detection.                                                   *)
(***************************************************************************)
\* The step delivers a "changed" notification to the handler.
Notification ==
  phase = "events" /\ changedEvents # <<>> /\ changedEvents' = Tail(changedEvents)

\* The keys checked in the cache now and unchecked or absent in the
\* snapshot kept.
Flips == buildCheckedMapFromCache(file) \ lastCheckedState.checked

\* The step calls the rewriting step, handleCompletions.
Invoked == pass' = pass + 1

\* The rewriting step is invoked exactly when a key has flipped, and on the
\* lines of the flipped keys and no others.
InvokedOnFlips == (Invoked <=> Flips # {}) /\ (Invoked => toggled' = Flips)

\* C23 as stated: on a notification for a document that has a stored
\* snapshot, the rewriting step is invoked if and only if at least one key
\* is checked now and was unchecked (or absent) in the snapshot, on exactly
\* the lines of those keys.
C23_FlipDetectionAsClaimed ==
  [][(Notification /\ lastCheckedState.has) => InvokedOnFlips]_vars

\* C23, amended: the same on every notification that arrives while the
\* self-write suppression flag is down; keys that went from checked to
\* unchecked or did not change are never passed.
C23_FlipDetection ==
  [][(Notification /\ lastCheckedState.has /\ ~isProgrammaticWrite)
       => /\ InvokedOnFlips
          /\ Invoked => toggled' \cap lastCheckedState.checked = {}]_vars

\* The handler of EV has been called with a flipped key while another key,
\* checked before, has been cleared.
C23_Witness ==
  /\ phase = "events"
  /\ variant = "EV"
  /\ pass >= 1
  /\ toggled # {}
  /\ \E i \in 1..Len(file) : i \notin toggled /\ TASK_OPEN_RE(file[i])
  /\ \E i \in 1..Len(orig) : TASK_DONE_RE(orig[i]) /\ TASK_OPEN_RE(file[i])

(***************************************************************************)
(* C24.  Snapshot freshness.                                               *)
(***************************************************************************)
\* The snapshot after the step is the mapping rebuilt from the cache.
SnapshotFresh ==
  lastCheckedState' = [has |-> TRUE, checked |-> buildCheckedMapFromCache(file)]

\* C24: after every "changed" notification for the document the stored
\* snapshot equals the mapping rebuilt from that notification, whether or
\* not any item flipped.
C24_SnapshotFreshness == [][Notification => SnapshotFresh]_vars

\* A notification that arrives while the flag is down does refresh the
\* snapshot.
C24_FreshUnlessSuppressed ==
  [][(Notification /\ ~isProgrammaticWrite) => SnapshotFresh]_vars

\* A notification that arrives while the flag is up leaves the snapshot as
\* it was.
C24_StaleWhenSuppressed ==
  [][(Notification /\ isProgrammaticWrite) => lastCheckedState' = lastCheckedState]_vars

(***************************************************************************)
(* C25.  No feedback loop.                                                 *)
(***************************************************************************)
\* The step delivers the notification that a write of the plugin caused.
OwnWriteNotification == Notification /\ Head(changedEvents) = "write"

\* C25: the change notifications caused by the plugin's own write never
\* lead to another write of the document: the handler they reach starts no
\* pass that has something to write.
C25_NoFeedbackLoop == [][OwnWriteNotification => writing' = writing]_vars

\* An own notification that arrives while the flag is up is dropped.
C25_SuppressedWhileFlagUp ==
  [][(OwnWriteNotification /\ isProgrammaticWrite)
       => (writing' = writing /\ pass' = pass)]_vars

\* The lines completed so far: the ones checked when the plugin was loaded
\* and at most one for every edit of the user.
CompletedLines == Cardinality(buildCheckedMapFromCache(orig)) + edits

\* Under EV, whose sentinel lets a line fire once, there are never more
\* calls of vault.modify than completed lines.
C25_WritesBoundedEV ==
  (phase = "events" /\ variant = "EV") => writes <= CompletedLines

(***************************************************************************)
(* C26.  The self-write suppression flag.                                  *)
(***************************************************************************)
\* C26: the flag is set only around the plugin's write, it is eventually
\* cleared after every write attempt, whether the write succeeds or fails,
\* and it is never left set forever.
C26_FlagEventuallyCleared ==
  /\ [](phase = "events" => (isProgrammaticWrite => flagTimers > 0))
  /\ [][(~isProgrammaticWrite /\ isProgrammaticWrite') => writes' = writes + 1]_vars
  /\ [][writes' = writes + 1 => (isProgrammaticWrite' /\ flagTimers' = flagTimers + 1)]_vars
  /\ (isProgrammaticWrite ~> ~isProgrammaticWrite)

\* A write has failed, the document is as it was, and the flag is up.
C26_Witness ==
  /\ phase = "events"
  /\ isProgrammaticWrite
  /\ writes = 1
  /\ file = orig
  /\ edits = 0

(***************************************************************************)
(* C27.  Debounce coalescing.                                              *)
(***************************************************************************)
\* The debounces armed with the document: each will start a pass.
ArmedTimers == (IF modifyTimer THEN 1 ELSE 0) + changedTimers

\* The step is a debounce firing: a pass starts.
DebouncedPassStarts == ModifyTimerFires \/ ChangedTimerFires

\* C27: a burst of raw change notifications for the document, each within
\* the quiet period of the one before (from the "modify" event and/or the
\* "changed" event), results in exactly one pass, started after the burst
\* ends: when a debounced pass starts, no other debounce is left armed.
C27_DebounceCoalescing == [][DebouncedPassStarts => ArmedTimers' = 0]_vars

\* "modify" notifications share one debounce: there is never more than one
\* pass pending for them.
C27_ModifyCoalesced ==
  [][UserComplete => (modifyTimer' /\ changedTimers' = changedTimers)]_vars

\* Every "changed" notification arms a debounce of its own.
C27_ChangedNotCoalesced ==
  [][MetadataChanged => ArmedTimers' = ArmedTimers + 1]_vars

(***************************************************************************)
(* C28.  No starvation across documents.                                   *)
(***************************************************************************)
\* C28: every document that receives a change notification is processed
\* after its quiet period, also when a notification for a different
\* document arrives within it: the debounce of one document never cancels
\* the pending pass of another, so an armed debounce ends only by firing.
C28_NoStarvation ==
  [][(phase = "host" /\ modifyTimer /\ ~modifyTimer') => ModifyTimerFires]_vars

\* A "modify" notification for another document always clears the pass
\* pending for this one.
C28_OtherDocumentCancels ==
  [][OtherDocumentModified => (modifyTimer /\ ArmedTimers' = ArmedTimers - 1
                                 /\ writing' = writing)]_vars

(***************************************************************************)
(* C29.  Terminal rung of the ladder that ends at #revise_90.              *)
(***************************************************************************)
\* The stage the line resolves to is the last of the ladder: its record has
\* neither nextTag nor offsetDays.
TerminalStage(l) ==
  /\ findStageTag(l) # NoTag
  /\ \E k \in 1..Len(STAGES_EV) :
       /\ STAGES_EV[k].tag = findStageTag(l)
       /\ STAGES_EV[k].nextTag = NoTag
       /\ STAGES_EV[k].offsetDays = 0

\* The engine was run on a completed line that resolves to the last stage.
AtTerminalRung ==
  /\ phase = "done"
  /\ IsCheckedItem(line)
  /\ TerminalStage(line)

\* C29: in the ladder that ends at #revise_90 (EV and TS), a completed line
\* whose resolved stage has no nextTag and no offset yields no result: no
\* successor is inserted and the line is not amended, so the pass has
\* nothing to write for it.
C29_TerminalRung ==
  (AtTerminalRung /\ variant \in {"EV", "TS"}) => YieldsNothing(line, res)

\* C29 for TS alone, which knows the ladder only.
C29_TerminalRungTS ==
  (AtTerminalRung /\ variant = "TS") => YieldsNothing(line, res)

\* C29 for EV on the lines that reach the ladder branch: those with no
\* #repeat_N of a positive count.
C29_TerminalRungEVLadderBranch ==
  (AtTerminalRung /\ variant = "EV"
     /\ (repeatMatchEV(line) = <<>>
           \/ parseInt(repeatCaptureEV(repeatMatchEV(line)[1])) = 0))
    => YieldsNothing(line, res)

(***************************************************************************)
(* C30.  List-marker preservation.                                         *)
(***************************************************************************)
\* The generated line starts with the list marker of the original and an
\* unchecked box.
MarkerKept(l, next) ==
  /\ Len(next) >= 2
  /\ next[1] = l[1]
  /\ next[2] = P("[ ]")

\* C30: the generated line keeps the list-marker style of the original (a
\* "-" item yields a "-" item, a numbered item yields a numbered item) and
\* its checkbox is the unchecked one.
C30_ListMarkerPreserved ==
  (phase = "done" /\ variant \in {"V2", "EV"} /\ res.fired) =>
     MarkerKept(line, res.next)

\* C30 for V2, where only "-" items fire.
C30_ListMarkerPreservedV2 ==
  (phase = "done" /\ variant = "V2" /\ res.fired) =>
     (line[1] = P("-") /\ MarkerKept(line, res.next))

\* What EV does: every generated line is a "-" item, whatever the original.
C30_AlwaysDashEV ==
  (phase = "done" /\ variant = "EV" /\ res.fired) =>
     (Len(res.next) >= 2 /\ res.next[1] = P("-") /\ res.next[2] = P("[ ]"))

(***************************************************************************)
(* C31.  Original-line frame.                                              *)
(***************************************************************************)
\* `marked` is l with one sentinel token put in: taking it out gives l back,
\* token for token.
OnlySentinelAdded(l, marked) ==
  \E i \in 1..Len(marked) :
    /\ IsSentinel(marked[i])
    /\ l = SubSeq(marked, 1, i - 1) \o SubSeq(marked, i + 1, Len(marked))

\* C31: the amended original line differs from the original only by the
\* added #nextscheduled token: its checkbox stays checked, its body text,
\* scheduling tag, date tokens and other tags are unchanged, and the
\* sentinel occurs exactly once in it.
C31_OriginalLineFrame ==
  (phase = "done" /\ variant \in {"V2", "EV"} /\ res.fired) =>
     /\ OnlySentinelAdded(line, res.marked)
     /\ IsCheckedItem(res.marked)
     /\ res.marked[2] = line[2]
     /\ Count(res.marked, IsSentinel) = 1

\* A line with a stage tag, a completion date and a block reference was
\* marked by EV.
C31_Witness ==
  /\ phase = "done"
  /\ variant = "EV"
  /\ res.fired
  /\ EndsWithBlockId(line)
  /\ Has(line, IsDone)
  /\ Has(line, IsStageTag)

\* The same for V2, on a line with a due date.
C31_WitnessV2 ==
  /\ phase = "done"
  /\ variant = "V2"
  /\ res.fired
  /\ Has(line, IsDue)

(***************************************************************************)
(* C32.  No spurious completion from line shifts.                          *)
(***************************************************************************)
\* The lines the plugin has put into the document: the user changes boxes
\* only, so every line beyond those of the document as loaded is a
\* generated one.
GeneratedLines == Len(file) - Len(orig)

\* C32: a line is passed to the rewriting step only if its own checkbox
\* went from unchecked to checked; a task that was checked before and only
\* sits at another line index gets no successor.  Every generated line then
\* answers for an edit of the user: there are never more generated lines
\* than edits.
C32_NoSpuriousCompletion ==
  phase = "events" => GeneratedLines <= edits

\* Under EV the sentinel lets a line fire once: there are never more
\* generated lines than lines completed, those checked at load included.
C32_GeneratedBoundedEV ==
  (phase = "events" /\ variant = "EV") => GeneratedLines <= CompletedLines

(***************************************************************************)
(* C33.  No lost update.                                                   *)
(***************************************************************************)
\* The line is still in the text, as it was or with the sentinel added.
KeptIn(l, text) ==
  \E j \in 1..Len(text) : text[j] = l \/ OnlySentinelAdded(l, text[j])

\* The step is the write of a pass: vault.modify with the text the pass
\* computed from what it had read.
WriteOfPass == PassWrites \/ CompletionsWrite

\* C33: a change made to the document between the read of a pass and its
\* write is not discarded by the write: every line the document holds at
\* the moment of the write is in the document after it, with at most the
\* sentinel added.
C33_NoLostUpdate ==
  [][WriteOfPass => \A i \in 1..Len(file) : KeptIn(file[i], file')]_vars
====
